---------------------------- MODULE Spec2Model ----------------------------
(* Crew assignment: the constraint model built by                          *)
(* create_crew_assignment_model (src/src/linear_program), the solve and    *)
(* report steps of main.py, and the satisfying assignments of the built    *)
(* model.                                                                  *)
(*                                                                         *)
(* A linear constraint is a record [terms, op, rhs, enf]: the sum of       *)
(* coef * value(var) over terms, compared by op with rhs, enforced only    *)
(* when every literal of enf holds.  Variables are numbered in the order   *)
(* the builder creates them (model.NewBoolVar / model.NewIntVar).          *)
EXTENDS Integers, Sequences, FiniteSets, TLC

VARIABLES
    youth_list,     \* the roster handed to create_crew_assignment_model
    centers,        \* the centers, each with its crews and their adult rosters
    cfg,            \* the Config
    pc,             \* position of main(): "start", "built", "raised", "solved",
                    \* "done", "failed"
    model,          \* the CpModel main() holds (NoModel before the build)
    person_center,  \* dict (name, center) -> variable, as returned to main()
    person_crew,    \* dict (name, center, crew) -> variable, as returned
    status,         \* the solver's status ("NONE" before the solve)
    solution,       \* the solver's values, one per variable (<<>> if none)
    solves,         \* how many times solver.Solve has been called
    printed,        \* the status line main() printed (<<>> before the report)
    queries         \* the functions that have called solver.Value

vars == <<youth_list, centers, cfg, pc, model, person_center, person_crew,
          status, solution, solves, printed, queries>>

-----------------------------------------------------------------------------
(* Python values *)

None == "None"

InSeq(x, s) == \E i \in DOMAIN s : s[i] = x

Range(s) == {s[i] : i \in DOMAIN s}

RECURSIVE FlattenRange(_, _, _)
FlattenRange(ss, lo, hi) ==
    IF lo > hi THEN <<>>
    ELSE IF lo = hi THEN ss[lo]
    ELSE FlattenRange(ss, lo, (lo + hi) \div 2)
             \o FlattenRange(ss, (lo + hi) \div 2 + 1, hi)

Flatten(ss) == FlattenRange(ss, 1, Len(ss))

SetMax(S) == CHOOSE x \in S : \A y \in S : y <= x

-----------------------------------------------------------------------------
(* Entities: src/src/models.py *)

Crew(name, adults) == [name |-> name, adults |-> adults]

Center(name, crews) == [name |-> name, crews |-> crews]

Youth(name, year, gender, history, role) ==
    [name |-> name, year |-> year, gender |-> gender, history |-> history,
     role |-> role, siblings |-> <<>>, parent_name |-> <<>>,
     first_choice |-> None, second_choice |-> None, third_choice |-> None,
     past_leaders |-> <<>>]

\* The accessors constraints.py reads; models.py under src/ does not define
\* them: the parent names and the sibling names of a person, as lists.
parent_names_list(youth) == youth.parent_name

siblings_list(youth) == youth.siblings

Config(min_crew_size, max_crew_size, fw, gw, yw, hw) ==
    [min_crew_size |-> min_crew_size, max_crew_size |-> max_crew_size,
     friend_weight |-> fw, gender_weight |-> gw, year_weight |-> yw,
     history_weight |-> hw]

-----------------------------------------------------------------------------
(* The CP model: variables, linear constraints, satisfaction *)

NoModel == [vars |-> <<>>, cons |-> <<>>, obj |-> <<>>]

Con(terms, op, rhs) == [terms |-> terms, op |-> op, rhs |-> rhs, enf |-> <<>>]

BoolDomain == [lo |-> 0, hi |-> 1]

RECURSIVE LinSum(_, _, _)
LinSum(terms, val, i) ==
    IF i > Len(terms) THEN 0
    ELSE terms[i][1] * val[terms[i][2]] + LinSum(terms, val, i + 1)

Compare(lhs, op, rhs) ==
    CASE op = "==" -> lhs = rhs
      [] op = "<=" -> lhs <= rhs
      [] op = ">=" -> lhs >= rhs

Holds(con, val) ==
    (\A i \in DOMAIN con.enf : val[con.enf[i][1]] = con.enf[i][2])
        => Compare(LinSum(con.terms, val, 1), con.op, con.rhs)

Satisfies(m, val) == \A i \in DOMAIN m.cons : Holds(m.cons[i], val)

ConVars(con) ==
    {con.terms[i][2] : i \in DOMAIN con.terms} \cup
    {con.enf[i][1] : i \in DOMAIN con.enf}

Unassigned == -1

\* Every extension of the partial assignments S to the variables vs.
RECURSIVE Extend(_, _, _)
Extend(S, vs, dom) ==
    IF vs = {} THEN S
    ELSE LET v == CHOOSE x \in vs : TRUE
         IN  Extend({[s EXCEPT ![v] = x] : s \in S, x \in dom[v].lo .. dom[v].hi},
                    vs \ {v}, dom)

\* The constraints from index i on that mention a variable of vs.
Mentioning(cons, i, vs) == {j \in i .. Len(cons) : ConVars(cons[j]) \cap vs # {}}

\* The search walks the constraints in order.  st.S holds the assignments
\* of the variables st.assigned that satisfy every constraint walked so
\* far.  A constraint brings in its unassigned variables.  When every
\* constraint that mentions them mentions otherwise only assigned
\* variables, their values are chosen per assignment at the end (a leaf:
\* [vars, cons]), and those constraints are skipped here.
PropagateOne(st, cons, i, dom) ==
    IF i \in st.skip THEN st
    ELSE LET fresh == ConVars(cons[i]) \ st.assigned
             group == Mentioning(cons, i, fresh)
             closed == fresh # {} /\ \A j \in group :
                           ConVars(cons[j]) \subseteq (st.assigned \cup fresh)
         IN  IF closed
             THEN [st EXCEPT !.leaves = Append(@, [vars |-> fresh, cons |-> group]),
                             !.skip = @ \cup group]
             ELSE [st EXCEPT !.S = {s \in Extend(@, fresh, dom) : Holds(cons[i], s)},
                             !.assigned = @ \cup fresh]

\* PropagateOne over the constraints lo .. hi, in order; it stops when no
\* assignment is left.
RECURSIVE Propagate(_, _, _, _, _)
Propagate(st, cons, lo, hi, dom) ==
    IF lo > hi \/ st.S = {} THEN st
    ELSE IF lo = hi THEN PropagateOne(st, cons, lo, dom)
    ELSE Propagate(Propagate(st, cons, lo, (lo + hi) \div 2, dom),
                   cons, (lo + hi) \div 2 + 1, hi, dom)

\* The values of a leaf's variables, as assignments extending s, that
\* satisfy the leaf's constraints.
LeafChoices(s, leaf, cons, dom) ==
    {t \in Extend({s}, leaf.vars, dom) : \A j \in leaf.cons : Holds(cons[j], t)}

\* The assignments T, each with the leaf's variables set as in one of ts.
Patched(T, ts, leaf) ==
    {[v \in DOMAIN t |-> IF v \in leaf.vars THEN u[v] ELSE t[v]] : t \in T, u \in ts}

\* T patched with the choices of the leaves lo .. hi for the assignment s.
RECURSIVE Expand(_, _, _, _, _, _, _)
Expand(T, s, leaves, lo, hi, cons, dom) ==
    IF lo > hi \/ T = {} THEN T
    ELSE IF lo = hi
    THEN Patched(T, LeafChoices(s, leaves[lo], cons, dom), leaves[lo])
    ELSE Expand(Expand(T, s, leaves, lo, (lo + hi) \div 2, cons, dom),
                s, leaves, (lo + hi) \div 2 + 1, hi, cons, dom)

\* Every assignment of the model's variables, within their domains, that
\* satisfies every constraint: what the solver may return values for.
Solutions(m) ==
    LET start == [S |-> {[v \in DOMAIN m.vars |-> Unassigned]}, assigned |-> {},
                  leaves |-> <<>>, skip |-> {}]
        core == Propagate(start, m.cons, 1, Len(m.cons), m.vars)
        free == [vars |-> (DOMAIN m.vars \ core.assigned)
                              \ UNION {core.leaves[n].vars : n \in DOMAIN core.leaves},
                 cons |-> {}]
    IN  UNION {Expand({s}, s, Append(core.leaves, free), 1, Len(core.leaves) + 1,
                      m.cons, m.vars) : s \in core.S}

Objective(m, val) == LinSum(m.obj, val, 1)

-----------------------------------------------------------------------------
(* Iteration orders of the builders *)

\* "for center in centers for crew in center.crews", in order.
Slots(cs) ==
    Flatten([c \in DOMAIN cs |->
        [k \in DOMAIN cs[c].crews |->
            [center |-> cs[c].name, crew |-> cs[c].crews[k].name,
             adults |-> cs[c].crews[k].adults]]])

\* youth_dict = {youth.name: youth for youth in youth_list}: its keys.
youth_dict(yl) == {yl[i].name : i \in DOMAIN yl}

\* regular_youth = [youth for youth in youth_list if youth.role == 'Youth']
regular_youth(yl) == SelectSeq(yl, LAMBDA y : y.role = "Youth")

\* [c for c in [first, second, third] if c is not None]
choices(youth) ==
    SelectSeq(<<youth.first_choice, youth.second_choice, youth.third_choice>>,
              LAMBDA c : c # None)

\* [c for c in choices if c is not None and c in youth_dict]
valid_choices(youth, yl) ==
    SelectSeq(choices(youth), LAMBDA c : c \in youth_dict(yl))

\* DictOf storing one variable, created before the loop, under every key:
\* C16 rests on a variable of its own for each key.
DictOf_one_variable(keys, base) == [k \in Range(keys) |-> base + 1]

\* A dict built by assigning keys[i] -> base + i in order: a later
\* assignment to the same key replaces the earlier one.
DictOf(keys, base) ==
    [k \in Range(keys) |-> base + SetMax({i \in DOMAIN keys : keys[i] = k})]

\* The entries of a "processed_pairs" loop that pass the "not in
\* processed_pairs" test: the first occurrence of each unordered pair.
FirstOfPair(entries) ==
    SelectSeq([n \in DOMAIN entries |->
                  [a |-> entries[n][1], b |-> entries[n][2],
                   first |-> \A m \in 1 .. (n - 1) :
                       {entries[m][1], entries[m][2]}
                           # {entries[n][1], entries[n][2]}]],
              LAMBDA e : e.first)

-----------------------------------------------------------------------------
(* Hard constraints: src/src/linear_program/constraints.py *)

\* add_one_crew_per_youth without the "else" of "if youth.name in
\* crew.adults": C2 rests on the "== 0" at the other crews.
add_one_crew_per_youth_listed_only(pcrew, yl, cs) ==
    Flatten([i \in DOMAIN yl |->
        IF yl[i].role = "Youth"
        THEN << Con([j \in DOMAIN Slots(cs) |->
                        <<1, pcrew[<<yl[i].name, Slots(cs)[j].center,
                                     Slots(cs)[j].crew>>]>>],
                    "==", 1) >>
        ELSE Flatten([j \in DOMAIN Slots(cs) |->
                 IF InSeq(yl[i].name, Slots(cs)[j].adults)
                 THEN << Con(<< <<1, pcrew[<<yl[i].name, Slots(cs)[j].center,
                                            Slots(cs)[j].crew>>]>> >>, "==", 1) >>
                 ELSE <<>>])])

\* add_one_crew_per_youth with "<= 1" for a Youth: C1 rests on the "== 1".
add_one_crew_per_youth_at_most_one(pcrew, yl, cs) ==
    Flatten([i \in DOMAIN yl |->
        IF yl[i].role = "Youth"
        THEN << Con([j \in DOMAIN Slots(cs) |->
                        <<1, pcrew[<<yl[i].name, Slots(cs)[j].center,
                                     Slots(cs)[j].crew>>]>>],
                    "<=", 1) >>
        ELSE [j \in DOMAIN Slots(cs) |->
                 Con(<< <<1, pcrew[<<yl[i].name, Slots(cs)[j].center,
                                     Slots(cs)[j].crew>>]>> >>,
                     "==",
                     IF InSeq(yl[i].name, Slots(cs)[j].adults) THEN 1 ELSE 0)]])

add_one_crew_per_youth(pcrew, yl, cs) ==
    Flatten([i \in DOMAIN yl |->
        IF yl[i].role = "Youth"
        THEN << Con([j \in DOMAIN Slots(cs) |->
                        <<1, pcrew[<<yl[i].name, Slots(cs)[j].center,
                                     Slots(cs)[j].crew>>]>>],
                    "==", 1) >>
        ELSE [j \in DOMAIN Slots(cs) |->
                 Con(<< <<1, pcrew[<<yl[i].name, Slots(cs)[j].center,
                                     Slots(cs)[j].crew>>]>> >>,
                     "==",
                     IF InSeq(yl[i].name, Slots(cs)[j].adults) THEN 1 ELSE 0)]])

\* link_crew_and_center_vars with ">=" for "==": C8 rests on the equality.
link_crew_and_center_vars_at_least(pcrew, pcenter, yl, cs) ==
    Flatten([i \in DOMAIN yl |->
        [c \in DOMAIN cs |->
            Con(<< <<1, pcenter[<<yl[i].name, cs[c].name>>]>> >> \o
                [k \in DOMAIN cs[c].crews |->
                    <<-1, pcrew[<<yl[i].name, cs[c].name,
                                  cs[c].crews[k].name>>]>>],
                ">=", 0)]])

link_crew_and_center_vars(pcrew, pcenter, yl, cs) ==
    Flatten([i \in DOMAIN yl |->
        [c \in DOMAIN cs |->
            Con(<< <<1, pcenter[<<yl[i].name, cs[c].name>>]>> >> \o
                [k \in DOMAIN cs[c].crews |->
                    <<-1, pcrew[<<yl[i].name, cs[c].name,
                                  cs[c].crews[k].name>>]>>],
                "==", 0)]])

\* adult_names: every name in some crew's adults list.
adult_names(cs) == UNION {Range(Slots(cs)[j].adults) : j \in DOMAIN Slots(cs)}

\* adult_to_center[adult]: the last center, in iteration order, with the
\* adult in one of its crews (a later assignment replaces an earlier one).
adult_to_center(cs, adult) ==
    cs[SetMax({c \in DOMAIN cs :
                 \E k \in DOMAIN cs[c].crews : InSeq(adult, cs[c].crews[k].adults)})]

\* The test of the ValueError made on parent_names_list[0] only: C9 rests
\* on the test of every listed parent.
parent_not_found_first_only(yl, cs) ==
    \E i \in DOMAIN yl :
        /\ parent_names_list(yl[i]) # <<>>
        /\ parent_names_list(yl[i])[1] \notin adult_names(cs)

\* The ValueError of enforce_parent_center_constraint.
parent_not_found(yl, cs) ==
    \E i \in DOMAIN yl :
        \E p \in DOMAIN parent_names_list(yl[i]) :
            parent_names_list(yl[i])[p] \notin adult_names(cs)

\* enforce_parent_center_constraint with the crews of every center searched
\* for the parents: C23 rests on the loop over parent_center.crews only.
enforce_parent_center_constraint_every_center(pcrew, pcenter, yl, cs) ==
    Flatten([i \in DOMAIN yl |->
        IF parent_names_list(yl[i]) = <<>> THEN <<>>
        ELSE LET parent_center == adult_to_center(cs, parent_names_list(yl[i])[1])
             IN  << Con(<< <<1, pcenter[<<yl[i].name, parent_center.name>>]>> >>,
                        "==", 1) >> \o
                 Flatten([j \in DOMAIN Slots(cs) |->
                     Flatten([p \in DOMAIN parent_names_list(yl[i]) |->
                         IF InSeq(parent_names_list(yl[i])[p], Slots(cs)[j].adults)
                         THEN << Con(<< <<1, pcrew[<<yl[i].name, Slots(cs)[j].center,
                                                    Slots(cs)[j].crew>>]>> >>,
                                     "==", 0) >>
                         ELSE <<>>])])])

\* enforce_parent_center_constraint with parent_names_list[-1] for
\* parent_names_list[0]: C5 rests on the first listed parent.
enforce_parent_center_constraint_last_parent(pcrew, pcenter, yl, cs) ==
    Flatten([i \in DOMAIN yl |->
        IF parent_names_list(yl[i]) = <<>> THEN <<>>
        ELSE LET parent_center ==
                     adult_to_center(cs, parent_names_list(yl[i])[
                                             Len(parent_names_list(yl[i]))])
             IN  << Con(<< <<1, pcenter[<<yl[i].name, parent_center.name>>]>> >>,
                        "==", 1) >> \o
                 Flatten([k \in DOMAIN parent_center.crews |->
                     Flatten([p \in DOMAIN parent_names_list(yl[i]) |->
                         IF InSeq(parent_names_list(yl[i])[p],
                                  parent_center.crews[k].adults)
                         THEN << Con(<< <<1, pcrew[<<yl[i].name, parent_center.name,
                                                    parent_center.crews[k].name>>]>> >>,
                                     "==", 0) >>
                         ELSE <<>>])])])

enforce_parent_center_constraint(pcrew, pcenter, yl, cs) ==
    Flatten([i \in DOMAIN yl |->
        IF parent_names_list(yl[i]) = <<>> THEN <<>>
        ELSE LET parent_center == adult_to_center(cs, parent_names_list(yl[i])[1])
             IN  << Con(<< <<1, pcenter[<<yl[i].name, parent_center.name>>]>> >>,
                        "==", 1) >> \o
                 Flatten([k \in DOMAIN parent_center.crews |->
                     Flatten([p \in DOMAIN parent_names_list(yl[i]) |->
                         IF InSeq(parent_names_list(yl[i])[p],
                                  parent_center.crews[k].adults)
                         THEN << Con(<< <<1, pcrew[<<yl[i].name, parent_center.name,
                                                    parent_center.crews[k].name>>]>> >>,
                                     "==", 0) >>
                         ELSE <<>>])])])

\* The (youth.name, sibling) entries with "sibling in youth_dict", in order.
sibling_entries(yl) ==
    Flatten([i \in DOMAIN yl |->
        SelectSeq([s \in DOMAIN siblings_list(yl[i]) |->
                      <<yl[i].name, siblings_list(yl[i])[s]>>],
                  LAMBDA e : e[2] \in youth_dict(yl))])

\* enforce_sibling_center_constraint with youth.name written on both sides
\* of the equality: C10 rests on the equality between the two siblings.
enforce_sibling_center_constraint_same_name(pcenter, yl, cs) ==
    Flatten([n \in DOMAIN sibling_entries(yl) |->
        [c \in DOMAIN cs |->
            Con(<< <<1, pcenter[<<sibling_entries(yl)[n][1], cs[c].name>>]>>,
                   <<-1, pcenter[<<sibling_entries(yl)[n][1], cs[c].name>>]>> >>,
                "==", 0)]])

enforce_sibling_center_constraint(pcenter, yl, cs) ==
    Flatten([n \in DOMAIN sibling_entries(yl) |->
        [c \in DOMAIN cs |->
            Con(<< <<1, pcenter[<<sibling_entries(yl)[n][1], cs[c].name>>]>>,
                   <<-1, pcenter[<<sibling_entries(yl)[n][2], cs[c].name>>]>> >>,
                "==", 0)]])

\* x[a, c, k] + x[b, c, k] <= 1 for every (c, k).
separate_in_every_crew(pcrew, a, b, cs) ==
    [j \in DOMAIN Slots(cs) |->
        Con(<< <<1, pcrew[<<a, Slots(cs)[j].center, Slots(cs)[j].crew>>]>>,
               <<1, pcrew[<<b, Slots(cs)[j].center, Slots(cs)[j].crew>>]>> >>,
            "<=", 1)]

\* enforce_sibling_crew_separation_constraint looping over the crews of
\* the first center only: C4 rests on the loop over every center.
enforce_sibling_crew_separation_constraint_first_center(pcrew, yl, cs) ==
    Flatten([n \in DOMAIN FirstOfPair(sibling_entries(yl)) |->
        separate_in_every_crew(pcrew, FirstOfPair(sibling_entries(yl))[n].a,
                               FirstOfPair(sibling_entries(yl))[n].b, <<cs[1]>>)])

\* enforce_sibling_crew_separation_constraint without the processed_pairs
\* test: C28 rests on each unordered pair being processed once.
enforce_sibling_crew_separation_constraint_every_entry(pcrew, yl, cs) ==
    Flatten([n \in DOMAIN sibling_entries(yl) |->
        separate_in_every_crew(pcrew, sibling_entries(yl)[n][1],
                               sibling_entries(yl)[n][2], cs)])

enforce_sibling_crew_separation_constraint(pcrew, yl, cs) ==
    Flatten([n \in DOMAIN FirstOfPair(sibling_entries(yl)) |->
        separate_in_every_crew(pcrew, FirstOfPair(sibling_entries(yl))[n].a,
                               FirstOfPair(sibling_entries(yl))[n].b, cs)])

\* The (youth.name, friend) entries with "friend in youth_dict", in order.
friend_entries(yl) ==
    Flatten([i \in DOMAIN yl |->
        [f \in DOMAIN valid_choices(yl[i], yl) |->
            <<yl[i].name, valid_choices(yl[i], yl)[f]>>]])

\* enforce_friend_separation_constraint looping over the crews of the
\* first center only: C25 rests on the loop over every center.
enforce_friend_separation_constraint_first_center(pcrew, yl, cs) ==
    Flatten([n \in DOMAIN FirstOfPair(friend_entries(yl)) |->
        separate_in_every_crew(pcrew, FirstOfPair(friend_entries(yl))[n].a,
                               FirstOfPair(friend_entries(yl))[n].b, <<cs[1]>>)])

\* enforce_friend_separation_constraint passing over a choice that names
\* the chooser: C26 rests on there being no such test.
enforce_friend_separation_constraint_skip_self(pcrew, yl, cs) ==
    Flatten([n \in DOMAIN FirstOfPair(friend_entries(yl)) |->
        IF FirstOfPair(friend_entries(yl))[n].a = FirstOfPair(friend_entries(yl))[n].b
        THEN <<>>
        ELSE separate_in_every_crew(pcrew, FirstOfPair(friend_entries(yl))[n].a,
                                    FirstOfPair(friend_entries(yl))[n].b, cs)])

\* enforce_friend_separation_constraint looping over the regular Youths
\* only: C27 rests on the loop over the whole of youth_list.
enforce_friend_separation_constraint_youth_only(pcrew, yl, cs) ==
    Flatten([n \in DOMAIN FirstOfPair(friend_entries(regular_youth(yl))) |->
        separate_in_every_crew(pcrew, FirstOfPair(friend_entries(regular_youth(yl)))[n].a,
                               FirstOfPair(friend_entries(regular_youth(yl)))[n].b, cs)])

enforce_friend_separation_constraint(pcrew, yl, cs) ==
    Flatten([n \in DOMAIN FirstOfPair(friend_entries(yl)) |->
        separate_in_every_crew(pcrew, FirstOfPair(friend_entries(yl))[n].a,
                               FirstOfPair(friend_entries(yl))[n].b, cs)])

\* enforce_friend_center_constraint looping over the first center only:
\* C6 rests on the loop over every center.
enforce_friend_center_constraint_first_center(pcenter, yl, cs) ==
    Flatten([i \in DOMAIN yl |->
        IF valid_choices(yl[i], yl) = <<>> THEN <<>>
        ELSE [c \in {1} |->
                 Con(<< <<1, pcenter[<<yl[i].name, cs[c].name>>]>> >> \o
                     [f \in DOMAIN valid_choices(yl[i], yl) |->
                         <<-1, pcenter[<<valid_choices(yl[i], yl)[f], cs[c].name>>]>>],
                     "<=", 0)]])

\* enforce_friend_center_constraint testing the choices made instead of
\* the choices found in youth_dict: C14 rests on the test of valid_choices.
enforce_friend_center_constraint_any_choice(pcenter, yl, cs) ==
    Flatten([i \in DOMAIN yl |->
        IF choices(yl[i]) = <<>> THEN <<>>
        ELSE [c \in DOMAIN cs |->
                 Con(<< <<1, pcenter[<<yl[i].name, cs[c].name>>]>> >> \o
                     [f \in DOMAIN valid_choices(yl[i], yl) |->
                         <<-1, pcenter[<<valid_choices(yl[i], yl)[f], cs[c].name>>]>>],
                     "<=", 0)]])

enforce_friend_center_constraint(pcenter, yl, cs) ==
    Flatten([i \in DOMAIN yl |->
        IF valid_choices(yl[i], yl) = <<>> THEN <<>>
        ELSE [c \in DOMAIN cs |->
                 Con(<< <<1, pcenter[<<yl[i].name, cs[c].name>>]>> >> \o
                     [f \in DOMAIN valid_choices(yl[i], yl) |->
                         <<-1, pcenter[<<valid_choices(yl[i], yl)[f], cs[c].name>>]>>],
                     "<=", 0)]])

\* enforce_crew_size_constraints without the min_crew_size constraint: C3
\* rests on both bounds.
enforce_crew_size_constraints_max_only(pcrew, yl, cs, config) ==
    Flatten([j \in DOMAIN Slots(cs) |->
        LET youth_in_crew ==
                [i \in DOMAIN yl |->
                    <<1, pcrew[<<yl[i].name, Slots(cs)[j].center, Slots(cs)[j].crew>>]>>]
            current_adult_count == Len(Slots(cs)[j].adults)
        IN  << Con(youth_in_crew, "<=", config.max_crew_size - current_adult_count) >>])

\* enforce_crew_size_constraints with the bounds applied to the youth
\* alone: C13 rests on the adults counting towards the crew's size.
enforce_crew_size_constraints_youth_only(pcrew, yl, cs, config) ==
    Flatten([j \in DOMAIN Slots(cs) |->
        LET youth_in_crew ==
                [i \in DOMAIN yl |->
                    <<1, pcrew[<<yl[i].name, Slots(cs)[j].center, Slots(cs)[j].crew>>]>>]
        IN  << Con(youth_in_crew, ">=", config.min_crew_size),
               Con(youth_in_crew, "<=", config.max_crew_size) >>])

\* enforce_crew_size_constraints with the crew's adults counted twice
\* towards min_crew_size: C12 rests on each adult counting once.
enforce_crew_size_constraints_adults_twice(pcrew, yl, cs, config) ==
    Flatten([j \in DOMAIN Slots(cs) |->
        LET youth_in_crew ==
                [i \in DOMAIN yl |->
                    <<1, pcrew[<<yl[i].name, Slots(cs)[j].center, Slots(cs)[j].crew>>]>>]
            current_adult_count == Len(Slots(cs)[j].adults)
        IN  << Con(youth_in_crew, ">=", config.min_crew_size - 2 * current_adult_count),
               Con(youth_in_crew, "<=", config.max_crew_size - current_adult_count) >>])

\* youth_in_crew + len(crew.adults) >= min_crew_size, <= max_crew_size;
\* yl is the regular youth.
enforce_crew_size_constraints(pcrew, yl, cs, config) ==
    Flatten([j \in DOMAIN Slots(cs) |->
        LET youth_in_crew ==
                [i \in DOMAIN yl |->
                    <<1, pcrew[<<yl[i].name, Slots(cs)[j].center, Slots(cs)[j].crew>>]>>]
            current_adult_count == Len(Slots(cs)[j].adults)
        IN  << Con(youth_in_crew, ">=", config.min_crew_size - current_adult_count),
               Con(youth_in_crew, "<=", config.max_crew_size - current_adult_count) >>])

\* enforce_past_leader_constraint with all(...) for any(...): C7 rests on
\* "any past leader".
enforce_past_leader_constraint_all_leaders(pcrew, yl, cs) ==
    Flatten([i \in DOMAIN yl |->
        IF yl[i].past_leaders = <<>> THEN <<>>
        ELSE Flatten([j \in DOMAIN Slots(cs) |->
                 IF \A l \in DOMAIN yl[i].past_leaders :
                        InSeq(yl[i].past_leaders[l], Slots(cs)[j].adults)
                 THEN << Con(<< <<1, pcrew[<<yl[i].name, Slots(cs)[j].center,
                                            Slots(cs)[j].crew>>]>> >>, "==", 0) >>
                 ELSE <<>>])])

enforce_past_leader_constraint(pcrew, yl, cs) ==
    Flatten([i \in DOMAIN yl |->
        IF yl[i].past_leaders = <<>> THEN <<>>
        ELSE Flatten([j \in DOMAIN Slots(cs) |->
                 IF \E l \in DOMAIN yl[i].past_leaders :
                        InSeq(yl[i].past_leaders[l], Slots(cs)[j].adults)
                 THEN << Con(<< <<1, pcrew[<<yl[i].name, Slots(cs)[j].center,
                                            Slots(cs)[j].crew>>]>> >>, "==", 0) >>
                 ELSE <<>>])])

-----------------------------------------------------------------------------
(* Objective terms: src/src/linear_program/objectives.py.  Each builder    *)
(* is given the number of variables created so far and yields the          *)
(* variables it creates, the constraints it adds and its objective terms.  *)

\* friend_choices = {first_choice: 3, second_choice: 2, third_choice: 1}
\* as its items in order: a key keeps the place of its first occurrence
\* and the value of its last.
friend_choices(youth) ==
    LET ks == <<youth.first_choice, youth.second_choice, youth.third_choice>>
        ws == <<3, 2, 1>>
    IN  [n \in DOMAIN SelectSeq(<<1, 2, 3>>,
                                LAMBDA i : \A m \in 1 .. (i - 1) : ks[m] # ks[i]) |->
            LET i == SelectSeq(<<1, 2, 3>>,
                               LAMBDA x : \A m \in 1 .. (x - 1) : ks[m] # ks[x])[n]
            IN  <<ks[i], ws[SetMax({m \in 1 .. 3 : ks[m] = ks[i]})]>>]

\* One entry per executed body of the "for center in centers" loop.
friend_objective_entries(yl, cs) ==
    Flatten([i \in DOMAIN yl |->
        Flatten([n \in DOMAIN friend_choices(yl[i]) |->
            IF friend_choices(yl[i])[n][1] # None
               /\ friend_choices(yl[i])[n][1] \in youth_dict(yl)
            THEN [c \in DOMAIN cs |->
                     [youth |-> yl[i].name,
                      friend |-> friend_choices(yl[i])[n][1],
                      weight |-> friend_choices(yl[i])[n][2],
                      center |-> cs[c].name,
                      young_adult |-> yl[i].role = "Young Adult",
                      is_ya_in_center |->
                          \E k \in DOMAIN cs[c].crews :
                              InSeq(yl[i].name, cs[c].crews[k].adults)]]
            ELSE <<>>])])

\* add_friend_preference_objectives without same_center >= a + b - 1: C20
\* rests on the lower bound of the linearisation.
add_friend_preference_objectives_upper_only(base, pcenter, yl, cs, config) ==
    LET E == friend_objective_entries(yl, cs)
        same_center(n) == base + Cardinality({m \in 1 .. n : ~E[m].young_adult})
    IN  [vars |-> [n \in DOMAIN SelectSeq(E, LAMBDA e : ~e.young_adult) |-> BoolDomain],
         cons |-> Flatten([n \in DOMAIN E |->
                     IF E[n].young_adult THEN <<>>
                     ELSE << Con(<< <<1, same_center(n)>>,
                                    <<-1, pcenter[<<E[n].youth, E[n].center>>]>> >>,
                                 "<=", 0),
                             Con(<< <<1, same_center(n)>>,
                                    <<-1, pcenter[<<E[n].friend, E[n].center>>]>> >>,
                                 "<=", 0) >>]),
         obj |-> Flatten([n \in DOMAIN E |->
                     IF E[n].young_adult
                     THEN IF E[n].is_ya_in_center
                          THEN << <<config.friend_weight * E[n].weight,
                                    pcenter[<<E[n].friend, E[n].center>>]>> >>
                          ELSE <<>>
                     ELSE << <<config.friend_weight * E[n].weight, same_center(n)>> >>])]

add_friend_preference_objectives(base, pcenter, yl, cs, config) ==
    LET E == friend_objective_entries(yl, cs)
        same_center(n) == base + Cardinality({m \in 1 .. n : ~E[m].young_adult})
    IN  [vars |-> [n \in DOMAIN SelectSeq(E, LAMBDA e : ~e.young_adult) |-> BoolDomain],
         cons |-> Flatten([n \in DOMAIN E |->
                     IF E[n].young_adult THEN <<>>
                     ELSE << Con(<< <<1, same_center(n)>>,
                                    <<-1, pcenter[<<E[n].youth, E[n].center>>]>> >>,
                                 "<=", 0),
                             Con(<< <<1, same_center(n)>>,
                                    <<-1, pcenter[<<E[n].friend, E[n].center>>]>> >>,
                                 "<=", 0),
                             Con(<< <<1, same_center(n)>>,
                                    <<-1, pcenter[<<E[n].youth, E[n].center>>]>>,
                                    <<-1, pcenter[<<E[n].friend, E[n].center>>]>> >>,
                                 ">=", -1) >>]),
         obj |-> Flatten([n \in DOMAIN E |->
                     IF E[n].young_adult
                     THEN IF E[n].is_ya_in_center
                          THEN << <<config.friend_weight * E[n].weight,
                                    pcenter[<<E[n].friend, E[n].center>>]>> >>
                          ELSE <<>>
                     ELSE << <<config.friend_weight * E[n].weight, same_center(n)>> >>])]

\* The place in objective_terms of the term appended by the n-th executed
\* loop body (0 when that body appends none).
friend_term(yl, cs, n) ==
    LET E == friend_objective_entries(yl, cs)
    IN  IF E[n].young_adult /\ ~E[n].is_ya_in_center THEN 0
        ELSE Cardinality({m \in 1 .. n : ~E[m].young_adult \/ E[m].is_ya_in_center})

\* The variable created by the n-th of the loop bodies E, for a regular
\* Youth, when base variables exist before the loop.
same_center_at(base, E, n) ==
    base + Cardinality({m \in 1 .. n : ~E[m].young_adult})

\* The variable same_center_<youth>_<friend>_<center> created by the n-th
\* executed loop body, for a regular Youth; base variables exist before.
same_center_var(base, yl, cs, n) ==
    same_center_at(base, friend_objective_entries(yl, cs), n)

\* sum(person_crew[youth.name, center, crew] for youth in yl
\*     if youth.<field> == value), as terms
crew_count(pcrew, yl, slot, field, value) ==
    [i \in DOMAIN SelectSeq(yl, LAMBDA y : y[field] = value) |->
        <<1, pcrew[<<SelectSeq(yl, LAMBDA y : y[field] = value)[i].name,
                     slot.center, slot.crew>>]>>]

\* balance_objective with the bound by the count of A only: C21 rests on
\* both upper bounds.
balance_objective_first_bound_only(base, pcrew, yl, cs, config, weight, field, a, b) ==
    [vars |-> [j \in DOMAIN Slots(cs) |-> [lo |-> 0, hi |-> config.max_crew_size]],
     cons |-> Flatten([j \in DOMAIN Slots(cs) |->
                 << Con(<< <<1, base + j>> >> \o
                        [t \in DOMAIN crew_count(pcrew, yl, Slots(cs)[j], field, a) |->
                            <<-1, crew_count(pcrew, yl, Slots(cs)[j], field, a)[t][2]>>],
                        "<=", 0) >>]),
     obj |-> [j \in DOMAIN Slots(cs) |-> <<weight, base + j>>]]

\* balance = NewIntVar(0, max_crew_size); balance <= count of A; <= count of B
balance_objective(base, pcrew, yl, cs, config, weight, field, a, b) ==
    [vars |-> [j \in DOMAIN Slots(cs) |-> [lo |-> 0, hi |-> config.max_crew_size]],
     cons |-> Flatten([j \in DOMAIN Slots(cs) |->
                 << Con(<< <<1, base + j>> >> \o
                        [t \in DOMAIN crew_count(pcrew, yl, Slots(cs)[j], field, a) |->
                            <<-1, crew_count(pcrew, yl, Slots(cs)[j], field, a)[t][2]>>],
                        "<=", 0),
                    Con(<< <<1, base + j>> >> \o
                        [t \in DOMAIN crew_count(pcrew, yl, Slots(cs)[j], field, b) |->
                            <<-1, crew_count(pcrew, yl, Slots(cs)[j], field, b)[t][2]>>],
                        "<=", 0) >>]),
     obj |-> [j \in DOMAIN Slots(cs) |-> <<weight, base + j>>]]

add_gender_diversity_objectives(base, pcrew, yl, cs, config) ==
    balance_objective(base, pcrew, yl, cs, config, config.gender_weight,
                      "gender", "F", "M")

years == <<"Fr", "So", "Jr", "Sr">>

\* add_year_diversity_objectives without year_count == 0 for an unset
\* has_year: C22 rests on both enforced constraints.
add_year_diversity_objectives_forward_only(base, pcrew, yl, cs, config) ==
    LET has_year(j, y) == base + (j - 1) * Len(years) + y
        entries == Flatten([j \in DOMAIN Slots(cs) |->
                       [y \in DOMAIN years |-> [j |-> j, y |-> y]]])
    IN  [vars |-> [n \in DOMAIN entries |-> BoolDomain],
         cons |-> Flatten([n \in DOMAIN entries |->
                     LET year_count ==
                             crew_count(pcrew, yl, Slots(cs)[entries[n].j],
                                        "year", years[entries[n].y])
                         hv == has_year(entries[n].j, entries[n].y)
                     IN  << [Con(year_count, ">=", 1) EXCEPT !.enf = << <<hv, 1>> >>] >>]),
         obj |-> [n \in DOMAIN entries |->
                     <<config.year_weight, has_year(entries[n].j, entries[n].y)>>]]

\* add_year_diversity_objectives with year_count >= 1 added without
\* OnlyEnforceIf(has_year): C24 rests on the enforcement literal.
add_year_diversity_objectives_unconditional(base, pcrew, yl, cs, config) ==
    LET has_year(j, y) == base + (j - 1) * Len(years) + y
        entries == Flatten([j \in DOMAIN Slots(cs) |->
                       [y \in DOMAIN years |-> [j |-> j, y |-> y]]])
    IN  [vars |-> [n \in DOMAIN entries |-> BoolDomain],
         cons |-> Flatten([n \in DOMAIN entries |->
                     LET year_count ==
                             crew_count(pcrew, yl, Slots(cs)[entries[n].j],
                                        "year", years[entries[n].y])
                         hv == has_year(entries[n].j, entries[n].y)
                     IN  << Con(year_count, ">=", 1),
                            [Con(year_count, "==", 0) EXCEPT !.enf = << <<hv, 0>> >>] >>]),
         obj |-> [n \in DOMAIN entries |->
                     <<config.year_weight, has_year(entries[n].j, entries[n].y)>>]]

add_year_diversity_objectives(base, pcrew, yl, cs, config) ==
    LET has_year(j, y) == base + (j - 1) * Len(years) + y
        entries == Flatten([j \in DOMAIN Slots(cs) |->
                       [y \in DOMAIN years |-> [j |-> j, y |-> y]]])
    IN  [vars |-> [n \in DOMAIN entries |-> BoolDomain],
         cons |-> Flatten([n \in DOMAIN entries |->
                     LET year_count ==
                             crew_count(pcrew, yl, Slots(cs)[entries[n].j],
                                        "year", years[entries[n].y])
                         hv == has_year(entries[n].j, entries[n].y)
                     IN  << [Con(year_count, ">=", 1) EXCEPT !.enf = << <<hv, 1>> >>],
                            [Con(year_count, "==", 0) EXCEPT !.enf = << <<hv, 0>> >>] >>]),
         obj |-> [n \in DOMAIN entries |->
                     <<config.year_weight, has_year(entries[n].j, entries[n].y)>>]]

add_history_diversity_objectives(base, pcrew, yl, cs, config) ==
    balance_objective(base, pcrew, yl, cs, config, config.history_weight,
                      "history", "V", "N")

-----------------------------------------------------------------------------
(* create_crew_assignment_model: src/src/linear_program/lp_model.py *)

\* Keys of person_center in creation order: for youth, for center.
person_center_keys(yl, cs) ==
    Flatten([i \in DOMAIN yl |-> [c \in DOMAIN cs |-> <<yl[i].name, cs[c].name>>]])

\* Keys of person_crew in creation order: for center, for crew, for youth.
person_crew_keys(yl, cs) ==
    Flatten([j \in DOMAIN Slots(cs) |->
        [i \in DOMAIN yl |-> <<yl[i].name, Slots(cs)[j].center, Slots(cs)[j].crew>>]])

hard_constraints(pcrew, pcenter, yl, cs, config) ==
    add_one_crew_per_youth(pcrew, yl, cs)
    \o link_crew_and_center_vars(pcrew, pcenter, yl, cs)
    \o enforce_parent_center_constraint(pcrew, pcenter, yl, cs)
    \o enforce_sibling_center_constraint(pcenter, yl, cs)
    \o enforce_sibling_crew_separation_constraint(pcrew, yl, cs)
    \o enforce_friend_separation_constraint(pcrew, yl, cs)
    \o enforce_friend_center_constraint(pcenter, yl, cs)
    \o enforce_crew_size_constraints(pcrew, regular_youth(yl), cs, config)
    \o enforce_past_leader_constraint(pcrew, yl, cs)

\* The model, person_center and person_crew the function returns when it
\* does not raise.
create_crew_assignment_model(config, yl, cs) ==
    LET pcenter == DictOf(person_center_keys(yl, cs), 0)
        pcrew == DictOf(person_crew_keys(yl, cs), Len(person_center_keys(yl, cs)))
        n0 == Len(person_center_keys(yl, cs)) + Len(person_crew_keys(yl, cs))
        hard == hard_constraints(pcrew, pcenter, yl, cs, config)
        friend == add_friend_preference_objectives(n0, pcenter, yl, cs, config)
        n1 == n0 + Len(friend.vars)
        gender == add_gender_diversity_objectives(n1, pcrew, regular_youth(yl), cs, config)
        n2 == n1 + Len(gender.vars)
        year == add_year_diversity_objectives(n2, pcrew, regular_youth(yl), cs, config)
        n3 == n2 + Len(year.vars)
        history == add_history_diversity_objectives(n3, pcrew, regular_youth(yl), cs, config)
    IN  [model |->
            [vars |-> [v \in 1 .. n0 |-> BoolDomain]
                      \o friend.vars \o gender.vars \o year.vars \o history.vars,
             cons |-> hard \o friend.cons \o gender.cons \o year.cons \o history.cons,
             obj |-> friend.obj \o gender.obj \o year.obj \o history.obj],
         person_center |-> pcenter,
         person_crew |-> pcrew]

\* The variables of the objective builders, numbered as
\* create_crew_assignment_model creates them: gender_balance of the j-th
\* crew, has_year of the j-th crew and the y-th year, history_balance of
\* the j-th crew.
\* The number of variables created before the balance variables of
\* add_gender_diversity_objectives.
variables_before_gender(yl, cs) ==
    Len(person_center_keys(yl, cs)) + Len(person_crew_keys(yl, cs))
    + Len(SelectSeq(friend_objective_entries(yl, cs), LAMBDA e : ~e.young_adult))

\* The variables of the j-th crew, and of year y, when n variables were
\* created before them and the centers have k crews.
gender_balance_at(n, j) == n + j

has_year_at(n, k, j, y) == n + k + (j - 1) * Len(years) + y

history_balance_at(n, k, j) == n + k + k * Len(years) + j

gender_balance_var(yl, cs, j) ==
    gender_balance_at(variables_before_gender(yl, cs), j)

has_year_var(yl, cs, j, y) ==
    has_year_at(variables_before_gender(yl, cs), Len(Slots(cs)), j, y)

history_balance_var(yl, cs, j) ==
    history_balance_at(variables_before_gender(yl, cs), Len(Slots(cs)), j)

-----------------------------------------------------------------------------
(* Inputs.  A roster of three persons and two centers; the roster, the     *)
(* centers and the configuration each vary along independent dimensions    *)
(* (parents, siblings, friend choices, past leaders, the third person's    *)
(* role, the second center's crews, crew size limits, weights), of which   *)
(* at most MaxFeatures leave their default at once.                        *)

MaxFeatures == 2

MaxMinCrewSize == 2

MaxMaxCrewSize == 3

Names == {"y1", "y2", "y3"}

NoLists == [n \in Names |-> <<>>]

NoChoices == [n \in Names |-> <<None, None, None>>]

\* parent names per person; "A5" is in no crew.
ParentOptions ==
    {NoLists,
     [NoLists EXCEPT !["y1"] = <<"A1">>],
     [NoLists EXCEPT !["y1"] = <<"A3">>],
     [NoLists EXCEPT !["y1"] = <<"A1", "A3">>],
     [NoLists EXCEPT !["y1"] = <<"A3", "A1">>],
     [NoLists EXCEPT !["y1"] = <<"A5">>],
     [NoLists EXCEPT !["y1"] = <<"A1", "A5">>],
     [NoLists EXCEPT !["y1"] = <<"A1">>, !["y2"] = <<"A3">>],
     [NoLists EXCEPT !["y1"] = <<"A1">>, !["y2"] = <<"A2">>],
     [NoLists EXCEPT !["y3"] = <<"A1">>]}

\* sibling names per person; "Out" is nobody of the roster.
SiblingOptions ==
    {NoLists,
     [NoLists EXCEPT !["y1"] = <<"y2">>],
     [NoLists EXCEPT !["y2"] = <<"y1">>],
     [NoLists EXCEPT !["y1"] = <<"y2">>, !["y2"] = <<"y1">>],
     [NoLists EXCEPT !["y1"] = <<"Out">>],
     [NoLists EXCEPT !["y1"] = <<"y3">>]}

\* first, second and third choice per person.
FriendOptions ==
    {NoChoices,
     [NoChoices EXCEPT !["y1"] = <<"y2", None, None>>],
     [NoChoices EXCEPT !["y1"] = <<"y2", None, None>>, !["y2"] = <<"y1", None, None>>],
     [NoChoices EXCEPT !["y1"] = <<"Out", None, None>>],
     [NoChoices EXCEPT !["y1"] = <<"Out", "y2", None>>],
     [NoChoices EXCEPT !["y1"] = <<"y2", "y2", None>>],
     [NoChoices EXCEPT !["y1"] = <<"y1", None, None>>],
     [NoChoices EXCEPT !["y1"] = <<"y2", "y3", "Out">>],
     [NoChoices EXCEPT !["y1"] = <<None, None, "y3">>],
     [NoChoices EXCEPT !["y3"] = <<"y1", None, None>>],
     [NoChoices EXCEPT !["y1"] = <<"y3", None, None>>, !["y2"] = <<"y3", None, None>>]}

LeaderOptions ==
    {NoLists,
     [NoLists EXCEPT !["y1"] = <<"A1">>],
     [NoLists EXCEPT !["y1"] = <<"A2", "A3">>],
     [NoLists EXCEPT !["y3"] = <<"A2">>]}

\* the third person: a Youth, or a Young Adult listed in a crew or in none.
RoleOptions ==
    {[role |-> "Youth", crew |-> None],
     [role |-> "Young Adult", crew |-> "k2"],
     [role |-> "Young Adult", crew |-> "k3"],
     [role |-> "Young Adult", crew |-> None]}

\* the crews of the second center.
LayoutOptions == {<<"k3", "k4">>, <<"k3">>}

SizeOptions ==
    {[min |-> a, max |-> b] :
        a \in 1 .. MaxMinCrewSize, b \in (MaxMaxCrewSize - 1) .. MaxMaxCrewSize}

\* Config.default(), Config.with_high_friend_weight(),
\* Config.with_high_diversity(): the four weights.
WeightOptions == {<<2, 1, 1, 1>>, <<4, 1, 1, 1>>, <<1, 2, 2, 2>>}

Deviations(p, s, f, l, r, k, z, w) ==
    (IF p = NoLists THEN 0 ELSE 1) + (IF s = NoLists THEN 0 ELSE 1)
    + (IF f = NoChoices THEN 0 ELSE 1) + (IF l = NoLists THEN 0 ELSE 1)
    + (IF r.role = "Youth" THEN 0 ELSE 1) + (IF k = <<"k3", "k4">> THEN 0 ELSE 1)
    + (IF z = [min |-> 1, max |-> MaxMaxCrewSize] THEN 0 ELSE 1)
    + (IF w = <<2, 1, 1, 1>> THEN 0 ELSE 1)

Person(name, year, gender, history, role, p, s, f, l) ==
    [Youth(name, year, gender, history, role) EXCEPT
        !.parent_name = p[name], !.siblings = s[name],
        !.first_choice = f[name][1], !.second_choice = f[name][2],
        !.third_choice = f[name][3], !.past_leaders = l[name]]

Roster(p, s, f, l, r) ==
    << Person("y1", "Fr", "F", "V", "Youth", p, s, f, l),
       Person("y2", "So", "M", "N", "Youth", p, s, f, l),
       Person("y3", "Fr", "M", "V", r.role, p, s, f, l) >>

\* Crew k of the layout: adult "A<k>", and the Young Adult listed there.
RosterOf(k, r) ==
    << CASE k = "k1" -> "A1" [] k = "k2" -> "A2" [] k = "k3" -> "A3" [] k = "k4" -> "A4" >>
    \o (IF r.crew = k THEN <<"y3">> ELSE <<>>)

Layout(k, r) ==
    << Center("c1", << Crew("k1", RosterOf("k1", r)), Crew("k2", RosterOf("k2", r)) >>),
       Center("c2", [i \in DOMAIN k |-> Crew(k[i], RosterOf(k[i], r))]) >>

Init ==
    /\ \E p \in ParentOptions, s \in SiblingOptions, f \in FriendOptions,
          l \in LeaderOptions, r \in RoleOptions, k \in LayoutOptions,
          z \in SizeOptions, w \in WeightOptions :
          /\ Deviations(p, s, f, l, r, k, z, w) <= MaxFeatures
          /\ youth_list = Roster(p, s, f, l, r)
          /\ centers = Layout(k, r)
          /\ cfg = Config(z.min, z.max, w[1], w[2], w[3], w[4])
    /\ pc = "start"
    /\ model = NoModel
    /\ person_center = <<>>
    /\ person_crew = <<>>
    /\ status = "NONE"
    /\ solution = <<>>
    /\ solves = 0
    /\ printed = <<>>
    /\ queries = {}

-----------------------------------------------------------------------------
(* main(): build, then solve *)

\* model, person_center, person_crew = create_crew_assignment_model(...)
CreateModel ==
    /\ pc = "start"
    /\ ~parent_not_found(youth_list, centers)
    /\ \E built \in {create_crew_assignment_model(cfg, youth_list, centers)} :
           /\ model' = built.model
           /\ person_center' = built.person_center
           /\ person_crew' = built.person_crew
    /\ pc' = "built"
    /\ UNCHANGED <<youth_list, centers, cfg, status, solution, solves, printed,
                   queries>>

\* The ValueError leaves create_crew_assignment_model and main(): nothing
\* is returned and nothing runs after it.
CreateModelRaises ==
    /\ pc = "start"
    /\ parent_not_found(youth_list, centers)
    /\ pc' = "raised"
    /\ UNCHANGED <<youth_list, centers, cfg, model, person_center, person_crew,
                   status, solution, solves, printed, queries>>

\* status = solver.Solve(model): INFEASIBLE when no assignment satisfies
\* the model; otherwise the values of some satisfying assignment, reported
\* OPTIMAL only if no satisfying assignment has a larger objective.
Solve ==
    /\ pc = "built"
    /\ \E sols \in {Solutions(model)} :
          IF sols = {}
          THEN status' = "INFEASIBLE" /\ solution' = <<>>
          ELSE \E best \in {SetMax({Objective(model, t) : t \in sols})} :
                  \E s \in sols :
                      /\ solution' = s
                      /\ status' \in (IF Objective(model, s) = best
                                      THEN {"OPTIMAL", "FEASIBLE"}
                                      ELSE {"FEASIBLE"})
    /\ pc' = "solved"
    /\ solves' = solves + 1
    /\ UNCHANGED <<youth_list, centers, cfg, model, person_center, person_crew,
                   printed, queries>>

\* all_friends_are_valid(youth_list): main() raises before the build when a
\* friend choice names nobody of the roster.
all_friends_are_valid(yl) ==
    \A i \in DOMAIN yl : \A c \in Range(choices(yl[i])) :
        c # None => c \in {yl[j].name : j \in DOMAIN yl}

\* status_to_string without the INFEASIBLE branch: C18 rests on a branch
\* for each of the four outcomes.
status_to_string_no_infeasible(s) ==
    IF s = "OPTIMAL" THEN "OPTIMAL"
    ELSE IF s = "FEASIBLE" THEN "FEASIBLE"
    ELSE IF s = "MODEL_INVALID" THEN "MODEL_INVALID"
    ELSE "UNKNOWN"

\* status_to_string(status)
status_to_string(s) ==
    IF s = "OPTIMAL" THEN "OPTIMAL"
    ELSE IF s = "FEASIBLE" THEN "FEASIBLE"
    ELSE IF s = "INFEASIBLE" THEN "INFEASIBLE"
    ELSE IF s = "MODEL_INVALID" THEN "MODEL_INVALID"
    ELSE "UNKNOWN"

\* The line main() prints for the status: 'Solution found! Status: ...' or
\* 'No solution found. Status: ...'.
status_line(s) ==
    [found |-> s = "OPTIMAL" \/ s = "FEASIBLE", status |-> status_to_string(s)]

\* The functions main() calls after the solve that read solver.Value:
\* print_crew_assignments and write_results_to_csv in the first branch only,
\* calculate_friend_scores after the branches.
value_readers(s) ==
    (IF s = "OPTIMAL" \/ s = "FEASIBLE"
     THEN {"print_crew_assignments", "write_results_to_csv"}
     ELSE {})
    \cup {"calculate_friend_scores"}

\* end_of_main going back to the solve when no solution was found: C17
\* rests on main() ending after the report.
end_of_main_retry(s) ==
    IF s = "OPTIMAL" \/ s = "FEASIBLE" THEN {"done"} ELSE {"built"}

\* Where main() can be after its last line: solver.Value without a solution
\* either raises or returns a value the solve never set.
end_of_main(s) ==
    IF s = "OPTIMAL" \/ s = "FEASIBLE" THEN {"done"} ELSE {"done", "failed"}

\* The report of main() after status = solver.Solve(model).
Report ==
    /\ pc = "solved"
    /\ all_friends_are_valid(youth_list)
    /\ printed' = status_line(status)
    /\ queries' = queries \cup value_readers(status)
    /\ pc' \in end_of_main(status)
    /\ UNCHANGED <<youth_list, centers, cfg, model, person_center, person_crew,
                   status, solution, solves>>

Next == CreateModel \/ CreateModelRaises \/ Solve \/ Report

Spec == Init /\ [][Next]_vars

-----------------------------------------------------------------------------
(* create_crew_assignment_model called on its own, as a caller that only   *)
(* builds the model does: the same inputs, no solve.                       *)

BuildNext == CreateModel \/ CreateModelRaises

Build == Init /\ [][BuildNext]_vars

-----------------------------------------------------------------------------
(* main() up to status = solver.Solve(model): the build and the solve,     *)
(* without what main() prints and reads afterwards.                        *)

BuildAndSolveNext == CreateModel \/ CreateModelRaises \/ Solve

BuildAndSolve == Init /\ [][BuildAndSolveNext]_vars

-----------------------------------------------------------------------------
(* Twelve Youths, one Center with two Crews, Config.default() *)

\* Config.default()
Config_default == Config(5, 7, 2, 1, 1, 1)

\* The most adults a crew's roster holds in this family of inputs.
MaxAdults == 2

TwelveNames ==
    <<"s01", "s02", "s03", "s04", "s05", "s06", "s07", "s08", "s09", "s10", "s11", "s12">>

\* Twelve persons with role 'Youth', no parents, siblings, friend choices
\* or past leaders; three of each year.
TwelveYouths ==
    [i \in DOMAIN TwelveNames |->
        Youth(TwelveNames[i], years[(i % 4) + 1], "F", "V", "Youth")]

\* One center with two crews, holding a1 and a2 adults.
TwoCrews(a1, a2) ==
    << Center("c1", << Crew("k1", [i \in 1 .. a1 |-> <<"A1", "A2", "A3">>[i]]),
                       Crew("k2", [i \in 1 .. a2 |-> <<"B1", "B2", "B3">>[i]]) >>) >>

ScenarioAInit ==
    /\ youth_list = TwelveYouths
    /\ \E a1, a2 \in 0 .. MaxAdults : centers = TwoCrews(a1, a2)
    /\ cfg = Config_default
    /\ pc = "start"
    /\ model = NoModel
    /\ person_center = <<>>
    /\ person_crew = <<>>
    /\ status = "NONE"
    /\ solution = <<>>
    /\ solves = 0
    /\ printed = <<>>
    /\ queries = {}

\* No person lists a parent: the build never raises.
ScenarioANext == CreateModel \/ Solve \/ Report

ScenarioA == ScenarioAInit /\ [][ScenarioANext]_vars

-----------------------------------------------------------------------------
(* The solved assignment as the reports read it *)

\* status == cp_model.OPTIMAL or status == cp_model.FEASIBLE
Solved == pc = "solved" /\ status \in {"OPTIMAL", "FEASIBLE"}

\* solver.Value(person_crew[p, c, k])
crew_assign(p, c, k) == solution[person_crew[<<p, c, k>>]]

\* solver.Value(person_center[p, c])
center_assign(p, c) == solution[person_center[<<p, c>>]]

\* solver.Value(person_crew[name, center.name, crew.name]) == 1
in_crew(name, slot) == crew_assign(name, slot.center, slot.crew) = 1

-----------------------------------------------------------------------------
(* Properties of every satisfying assignment *)

\* C1: in every assignment that satisfies the built model, each person
\* with role 'Youth' has crew_assign = 1 at exactly one (center, crew).
C1_OneCrewPerYouth ==
    Solved =>
        \A i \in DOMAIN youth_list :
            youth_list[i].role = "Youth" =>
                Cardinality({j \in DOMAIN Slots(centers) :
                                in_crew(youth_list[i].name, Slots(centers)[j])}) = 1

\* Three Youths placed, two of them in the same crew, by an optimal solve.
C1_Witness ==
    /\ Solved
    /\ status = "OPTIMAL"
    /\ \A i \in DOMAIN youth_list : youth_list[i].role = "Youth"
    /\ crew_assign("y1", "c1", "k1") = 1
    /\ crew_assign("y2", "c1", "k1") = 1
    /\ crew_assign("y3", "c2", "k3") = 1

\* C2: in every satisfying assignment, a Young Adult listed in a crew's
\* adult roster has crew_assign = 1 at the crews that list it and 0 at
\* every other (center, crew), whatever the objective weights.
C2_YoungAdultPinned ==
    Solved =>
        \A i \in DOMAIN youth_list :
            (/\ youth_list[i].role = "Young Adult"
             /\ \E j \in DOMAIN Slots(centers) :
                    InSeq(youth_list[i].name, Slots(centers)[j].adults))
            => \A j \in DOMAIN Slots(centers) :
                   crew_assign(youth_list[i].name, Slots(centers)[j].center,
                               Slots(centers)[j].crew)
                       = IF InSeq(youth_list[i].name, Slots(centers)[j].adults)
                         THEN 1 ELSE 0

\* A Young Adult listed in k3, solved under the high friend weight.
C2_Witness ==
    /\ Solved
    /\ cfg.friend_weight = 4
    /\ youth_list[3].role = "Young Adult"
    /\ InSeq("y3", centers[2].crews[1].adults)
    /\ crew_assign("y3", "c2", "k3") = 1
    /\ crew_assign("y3", "c1", "k1") = 0

\* C3: in every satisfying assignment, for every crew, the number of
\* role-'Youth' persons assigned to it plus the length of its adult roster
\* (Young Adults included) is within [min_crew_size, max_crew_size].
C3_CrewSizeWithinBounds ==
    Solved =>
        \A j \in DOMAIN Slots(centers) :
            LET n == Cardinality({i \in DOMAIN youth_list :
                                     /\ youth_list[i].role = "Youth"
                                     /\ in_crew(youth_list[i].name, Slots(centers)[j])})
                     + Len(Slots(centers)[j].adults)
            IN  cfg.min_crew_size <= n /\ n <= cfg.max_crew_size

\* Crew k2 lists an adult and a Young Adult, which fills it to a maximum
\* of 2: no Youth is assigned there.
C3_Witness ==
    /\ Solved
    /\ cfg.max_crew_size = 2
    /\ Slots(centers)[2].adults = <<"A2", "y3">>
    /\ \A i \in DOMAIN youth_list :
           youth_list[i].role = "Youth" => ~in_crew(youth_list[i].name, Slots(centers)[2])

\* C4: in every satisfying assignment, for persons a and b of the roster
\* with b in a's sibling list, center_assign agrees for a and b at every
\* center, and no (center, crew) has crew_assign = 1 for both.
C4_SiblingsShareCenterNotCrew ==
    Solved =>
        \A i \in DOMAIN youth_list :
            \A n \in DOMAIN siblings_list(youth_list[i]) :
                LET a == youth_list[i].name
                    b == siblings_list(youth_list[i])[n]
                IN  b \in youth_dict(youth_list) =>
                        /\ \A c \in DOMAIN centers :
                               center_assign(a, centers[c].name)
                                   = center_assign(b, centers[c].name)
                        /\ \A j \in DOMAIN Slots(centers) :
                               ~(in_crew(a, Slots(centers)[j]) /\ in_crew(b, Slots(centers)[j]))

\* y1 lists y2 as a sibling; both are in the second center, in k3 and k4.
C4_Witness ==
    /\ Solved
    /\ InSeq("y2", siblings_list(youth_list[1]))
    /\ Len(centers[2].crews) = 2
    /\ crew_assign("y1", "c2", "k3") = 1
    /\ crew_assign("y2", "c2", "k4") = 1

\* The centers with a crew whose adult roster contains the adult.
centers_with(adult) ==
    {c \in DOMAIN centers :
        \E k \in DOMAIN centers[c].crews : InSeq(adult, centers[c].crews[k].adults)}

\* C5 as stated: for every child and every parent it lists, the child's
\* center_assign is 1 exactly at the center of that parent's crew, and its
\* crew_assign is 0 at every crew whose roster contains that parent.
C5_EveryParentBinds ==
    Solved =>
        \A i \in DOMAIN youth_list :
            \A p \in DOMAIN parent_names_list(youth_list[i]) :
                /\ \A c \in DOMAIN centers :
                       center_assign(youth_list[i].name, centers[c].name)
                           = IF c \in centers_with(parent_names_list(youth_list[i])[p])
                             THEN 1 ELSE 0
                /\ \A j \in DOMAIN Slots(centers) :
                       InSeq(parent_names_list(youth_list[i])[p], Slots(centers)[j].adults)
                           => ~in_crew(youth_list[i].name, Slots(centers)[j])

\* C5, amended: in every satisfying assignment, a child that lists
\* parents has center_assign = 1 at the center resolved for its first
\* listed parent and crew_assign = 0 at every crew of that center whose
\* roster contains any listed parent; a child with role 'Youth' moreover
\* has center_assign = 0 at every other center and crew_assign = 0 at every
\* crew whose roster contains a listed parent.
C5_FirstParentBinds ==
    Solved =>
        \A i \in DOMAIN youth_list :
            parent_names_list(youth_list[i]) # <<>> =>
                LET child == youth_list[i].name
                    parents == Range(parent_names_list(youth_list[i]))
                    first == SetMax(centers_with(parent_names_list(youth_list[i])[1]))
                IN  /\ center_assign(child, centers[first].name) = 1
                    /\ \A j \in DOMAIN Slots(centers) :
                           (/\ Slots(centers)[j].center = centers[first].name
                            /\ Range(Slots(centers)[j].adults) \cap parents # {})
                               => ~in_crew(child, Slots(centers)[j])
                    /\ youth_list[i].role = "Youth" =>
                           /\ \A c \in DOMAIN centers \ {first} :
                                  center_assign(child, centers[c].name) = 0
                           /\ \A j \in DOMAIN Slots(centers) :
                                  Range(Slots(centers)[j].adults) \cap parents # {}
                                      => ~in_crew(child, Slots(centers)[j])

\* y1 lists a parent of the first center and then one of the second: it is
\* placed in the first center, in the crew without the parent.
C5_Witness ==
    /\ Solved
    /\ parent_names_list(youth_list[1]) = <<"A1", "A3">>
    /\ center_assign("y1", "c1") = 1
    /\ crew_assign("y1", "c1", "k2") = 1

\* C6: in every satisfying assignment, for every Youth y and every friend
\* choice f of y that is in the roster, y and f are never in the same
\* (center, crew), and y is at a center only if one of its in-roster
\* friend choices is at that center.
C6_FriendsSeparateCrewSameCenter ==
    Solved =>
        \A i \in DOMAIN youth_list :
            youth_list[i].role = "Youth" =>
                LET y == youth_list[i].name
                    friends == {f \in {youth_list[i].first_choice,
                                       youth_list[i].second_choice,
                                       youth_list[i].third_choice} :
                                   \E n \in DOMAIN youth_list : youth_list[n].name = f}
                IN  friends # {} =>
                        /\ \A f \in friends : \A j \in DOMAIN Slots(centers) :
                               ~(in_crew(y, Slots(centers)[j]) /\ in_crew(f, Slots(centers)[j]))
                        /\ \A c \in DOMAIN centers :
                               center_assign(y, centers[c].name) = 1
                                   => \E f \in friends :
                                          center_assign(f, centers[c].name) = 1

\* y1 chose y2 and y3; y2 is at y1's center in another crew, y3 elsewhere.
C6_Witness ==
    /\ Solved
    /\ youth_list[1].first_choice = "y2"
    /\ youth_list[1].second_choice = "y3"
    /\ crew_assign("y1", "c1", "k1") = 1
    /\ crew_assign("y2", "c1", "k2") = 1
    /\ center_assign("y3", "c2") = 1

\* C7: in every satisfying assignment, a Youth with past leaders has
\* crew_assign = 0 at every (center, crew) whose adult roster contains at
\* least one of them.
C7_NoPastLeaderCrew ==
    Solved =>
        \A i \in DOMAIN youth_list :
            (youth_list[i].role = "Youth" /\ youth_list[i].past_leaders # <<>>) =>
                \A j \in DOMAIN Slots(centers) :
                    Range(youth_list[i].past_leaders) \cap Range(Slots(centers)[j].adults) # {}
                        => crew_assign(youth_list[i].name, Slots(centers)[j].center,
                                       Slots(centers)[j].crew) = 0

\* y1 had the adults of k2 and k3 as leaders and is placed in k1.
C7_Witness ==
    /\ Solved
    /\ youth_list[1].past_leaders = <<"A2", "A3">>
    /\ crew_assign("y1", "c1", "k1") = 1

\* C8: in every satisfying assignment, for every person p of the roster
\* (Youth or Young Adult) and every center c, center_assign[p, c] is the sum
\* of crew_assign[p, c, k] over the crews k of c.
C8_CenterIsSumOfCrews ==
    Solved =>
        \A i \in DOMAIN youth_list : \A c \in DOMAIN centers :
            center_assign(youth_list[i].name, centers[c].name)
                = LinSum([k \in DOMAIN centers[c].crews |->
                             <<1, person_crew[<<youth_list[i].name, centers[c].name,
                                                centers[c].crews[k].name>>]>>],
                         solution, 1)

\* A Young Adult listed in k2 and a Youth placed in k4: each is at the
\* center of its crew and not at the other one.
C8_Witness ==
    /\ Solved
    /\ youth_list[3].role = "Young Adult"
    /\ crew_assign("y3", "c1", "k2") = 1
    /\ center_assign("y3", "c1") = 1
    /\ center_assign("y3", "c2") = 0
    /\ Len(centers[2].crews) = 2
    /\ crew_assign("y1", "c2", "k4") = 1
    /\ center_assign("y1", "c2") = 1
    /\ center_assign("y1", "c1") = 0

-----------------------------------------------------------------------------
(* Failures during construction *)

\* Some person lists a parent name that is in no crew's adult roster.
parent_in_no_roster ==
    \E i \in DOMAIN youth_list :
        \E p \in DOMAIN parent_names_list(youth_list[i]) :
            \A j \in DOMAIN Slots(centers) :
                ~InSeq(parent_names_list(youth_list[i])[p], Slots(centers)[j].adults)

\* C9: if a person lists a parent name that is in no crew's adult roster,
\* create_crew_assignment_model raises: no model and no variable map
\* reaches the caller and no solve is made.
C9_AbsentParentRaises ==
    parent_in_no_roster =>
        /\ pc \in {"start", "raised"}
        /\ model = NoModel
        /\ person_center = <<>>
        /\ person_crew = <<>>
        /\ status = "NONE"
        /\ solution = <<>>

\* y1's second parent is in no roster (the first is): construction raised.
C9_Witness ==
    /\ pc = "raised"
    /\ parent_names_list(youth_list[1]) = <<"A1", "A5">>
    /\ model = NoModel
    /\ status = "NONE"

\* Two persons of the roster, one in the other's sibling list, each list
\* a parent, and a parent of one is in a crew of another center than a
\* parent of the other.
siblings_with_parents_apart ==
    \E i, n \in DOMAIN youth_list :
        /\ InSeq(youth_list[n].name, siblings_list(youth_list[i]))
        /\ \E p \in DOMAIN parent_names_list(youth_list[i]),
              q \in DOMAIN parent_names_list(youth_list[n]) :
              \E c \in centers_with(parent_names_list(youth_list[i])[p]),
                 d \in centers_with(parent_names_list(youth_list[n])[q]) : c # d

\* C10 as stated: when two siblings each list a parent and the parents
\* are in crews of different centers, construction raises a failure, so no
\* model is built and the solver is not invoked.
C10_ParentsApartRaises ==
    siblings_with_parents_apart => pc \in {"start", "raised"}

\* Two persons of the roster, one in the other's sibling list and at least
\* one with role 'Youth', whose first listed parents resolve to different
\* centers, every listed parent being in some roster.
siblings_bound_apart ==
    /\ ~parent_in_no_roster
    /\ \E i, n \in DOMAIN youth_list :
          /\ InSeq(youth_list[n].name, siblings_list(youth_list[i]))
          /\ youth_list[i].role = "Youth" \/ youth_list[n].role = "Youth"
          /\ parent_names_list(youth_list[i]) # <<>>
          /\ parent_names_list(youth_list[n]) # <<>>
          /\ SetMax(centers_with(parent_names_list(youth_list[i])[1]))
                 # SetMax(centers_with(parent_names_list(youth_list[n])[1]))

\* C10, amended: when two siblings, at least one a Youth, list parents
\* (all present in rosters) whose first-listed ones resolve to different
\* centers, construction raises nothing: the model is built and every solve
\* of it reports INFEASIBLE.
C10_ParentsApartInfeasible ==
    siblings_bound_apart =>
        /\ pc # "raised"
        /\ pc = "solved" => status = "INFEASIBLE"

\* y1 (parent in the first center) lists y2 (parent in the second center)
\* as a sibling; each parent's center has a crew without the parent; the
\* model was built and the solve reported INFEASIBLE.
C10_Witness ==
    /\ pc = "solved"
    /\ status = "INFEASIBLE"
    /\ InSeq("y2", siblings_list(youth_list[1]))
    /\ parent_names_list(youth_list[1]) = <<"A1">>
    /\ parent_names_list(youth_list[2]) = <<"A3">>
    /\ Len(centers[2].crews) = 2
    /\ Len(model.cons) > 0

-----------------------------------------------------------------------------
(* The run of main() after the solve *)

\* C11: values of center_assign / crew_assign are read from the solver only
\* when the status is OPTIMAL or FEASIBLE: when the status is INFEASIBLE or
\* MODEL_INVALID, no step of the run has called solver.Value.
C11_ValuesReadOnlyWhenFound ==
    status \in {"INFEASIBLE", "MODEL_INVALID"} => queries = {}

-----------------------------------------------------------------------------
(* Capacity *)

\* The people the size constraints count: the persons with role 'Youth'
\* and every entry of every crew's adult roster.
people_counted(yl, cs) ==
    Len(regular_youth(yl)) + Len(Flatten([j \in DOMAIN Slots(cs) |-> Slots(cs)[j].adults]))

\* C12: when min_crew_size times the number of crews exceeds the number of
\* role-'Youth' persons plus the number of adult roster entries, the built
\* model has no satisfying assignment: every solve of it is INFEASIBLE.
C12_TooFewPeopleInfeasible ==
    /\ pc \in {"solved", "done", "failed"}
    /\ cfg.min_crew_size * Len(Slots(centers)) > people_counted(youth_list, centers)
    => status = "INFEASIBLE"

\* Four crews of one adult each, three Youths, min_crew_size 2 (8 > 7):
\* the model was built and the solve reported INFEASIBLE.
C12_Witness ==
    /\ pc = "solved"
    /\ status = "INFEASIBLE"
    /\ cfg.min_crew_size = 2
    /\ Len(Slots(centers)) = 4
    /\ people_counted(youth_list, centers) = 7
    /\ Len(regular_youth(youth_list)) = 3

\* len(crew_youth) + len(crew.adults) of the solved assignment
crew_total(slot) ==
    Cardinality({i \in DOMAIN youth_list : in_crew(youth_list[i].name, slot)})
    + Len(slot.adults)

\* Every person of the roster sits in exactly one crew, and every crew's
\* total size lies between min_crew_size and max_crew_size.
all_placed_within_bounds ==
    /\ \A i \in DOMAIN youth_list :
           Cardinality({j \in DOMAIN Slots(centers) :
                           in_crew(youth_list[i].name, Slots(centers)[j])}) = 1
    /\ \A j \in DOMAIN Slots(centers) :
           /\ crew_total(Slots(centers)[j]) >= cfg.min_crew_size
           /\ crew_total(Slots(centers)[j]) <= cfg.max_crew_size

\* Twelve role-'Youth' persons without friend choices, siblings, parents or
\* past leaders, one center with two crews, Config.default().
twelve_youths_two_crews ==
    /\ Len(youth_list) = 12
    /\ \A i \in DOMAIN youth_list :
           /\ youth_list[i].role = "Youth"
           /\ choices(youth_list[i]) = <<>>
           /\ siblings_list(youth_list[i]) = <<>>
           /\ parent_names_list(youth_list[i]) = <<>>
           /\ youth_list[i].past_leaders = <<>>
    /\ Len(centers) = 1
    /\ Len(centers[1].crews) = 2
    /\ cfg = Config_default

\* C13, as stated: for 12 Youths, one Center with two Crews, min_crew_size
\* 5, max_crew_size 7, no friend choices, siblings, parents or past leaders
\* and default weights, the model has a satisfying assignment, and every
\* satisfying assignment places all 12 Youths with each crew's total size
\* between 5 and 7.
C13_TwelveYouthsFeasible ==
    twelve_youths_two_crews /\ pc \in {"solved", "done", "failed"} =>
        /\ status \in {"OPTIMAL", "FEASIBLE"}
        /\ all_placed_within_bounds

\* C13, amended: the same, for crews whose adult rosters hold at most two
\* adults in total.
C13_TwelveYouthsFewAdultsFeasible ==
    /\ twelve_youths_two_crews
    /\ people_counted(youth_list, centers) <= 12 + 2
    /\ pc \in {"solved", "done", "failed"}
    => /\ status \in {"OPTIMAL", "FEASIBLE"}
       /\ all_placed_within_bounds

\* One adult in each crew: a solve returned an assignment with six Youths
\* and one adult in each crew.
C13_Witness ==
    /\ twelve_youths_two_crews
    /\ pc = "solved"
    /\ status = "OPTIMAL"
    /\ \A j \in DOMAIN Slots(centers) :
           Len(Slots(centers)[j].adults) = 1 /\ crew_total(Slots(centers)[j]) = 7

-----------------------------------------------------------------------------
(* Friend choices outside the roster *)

\* The roster with the three choice fields of its i-th person empty.
without_choices(yl, i) ==
    [yl EXCEPT ![i].first_choice = None, ![i].second_choice = None,
               ![i].third_choice = None]

\* The i-th person is a Youth whose only friend choice names nobody of the
\* roster.
sole_choice_unresolved(yl, i) ==
    /\ yl[i].role = "Youth"
    /\ Len(choices(yl[i])) = 1
    /\ valid_choices(yl[i], yl) = <<>>

\* C14: when a Youth's only friend choice names someone not in the roster,
\* the builder adds no friend-separation and no friend-center constraint
\* for it: the built model has the same constraints and the same set of
\* satisfying assignments as the model built from the identical input with
\* that choice absent.
C14_UnresolvedChoiceIgnored ==
    pc = "built" =>
        \A i \in DOMAIN youth_list :
            sole_choice_unresolved(youth_list, i) =>
                LET absent == create_crew_assignment_model(
                                  cfg, without_choices(youth_list, i), centers).model
                IN  /\ model.cons = absent.cons
                    /\ Solutions(model) = Solutions(absent)

\* y1's only choice names "Out"; the model was built and has a satisfying
\* assignment.
C14_Witness ==
    /\ pc = "built"
    /\ sole_choice_unresolved(youth_list, 1)
    /\ Solutions(model) # {}

-----------------------------------------------------------------------------
(* The decision variables *)

\* C16: for a roster with unique person names and centers and crews with
\* unique names, create_crew_assignment_model returns |persons| * |centers|
\* center_assign entries and |persons| * (number of crews of all centers)
\* crew_assign entries, exactly one per (person, center) and per (person,
\* center, crew) key, each a boolean variable of the model of its own.
C16_OneVariablePerKey ==
    pc = "built" =>
        /\ DOMAIN person_center =
               {<<youth_list[i].name, centers[c].name>> :
                    i \in DOMAIN youth_list, c \in DOMAIN centers}
        /\ DOMAIN person_crew =
               {<<youth_list[i].name, Slots(centers)[j].center, Slots(centers)[j].crew>> :
                    i \in DOMAIN youth_list, j \in DOMAIN Slots(centers)}
        /\ Cardinality(DOMAIN person_center) = Len(youth_list) * Len(centers)
        /\ Cardinality(DOMAIN person_crew) = Len(youth_list) * Len(Slots(centers))
        /\ Cardinality({person_center[k] : k \in DOMAIN person_center}
                       \cup {person_crew[k] : k \in DOMAIN person_crew})
               = Len(youth_list) * Len(centers) + Len(youth_list) * Len(Slots(centers))
        /\ \A v \in {person_center[k] : k \in DOMAIN person_center}
                     \cup {person_crew[k] : k \in DOMAIN person_crew} :
               v \in DOMAIN model.vars /\ model.vars[v] = BoolDomain

\* Three persons, one of them a Young Adult, two centers with three crews
\* in all: six center_assign and nine crew_assign entries were returned.
C16_Witness ==
    /\ pc = "built"
    /\ \E i \in DOMAIN youth_list : youth_list[i].role = "Young Adult"
    /\ Len(Slots(centers)) = 3
    /\ Cardinality(DOMAIN person_center) = 6
    /\ Cardinality(DOMAIN person_crew) = 9

-----------------------------------------------------------------------------
(* One solve, one report *)

\* C17: a run invokes the solver exactly once on the model as built: no
\* step makes a second call of solver.Solve, no step after the build
\* changes the model, and the step after the solve reports the status
\* (INFEASIBLE and FEASIBLE included) and ends the run with one solve made.
C17_SolvedOnceModelKept ==
    [][ /\ solves' <= 1
        /\ pc # "start" => model' = model
        /\ pc = "solved" =>
               /\ status' = status
               /\ printed'.status = status_to_string(status)
               /\ pc' \in {"done", "failed"}
               /\ solves' = 1 ]_vars

\* A run ended after an INFEASIBLE solve: one solve was made, INFEASIBLE
\* was reported, and the model still has its constraints.
C17_Witness ==
    /\ pc = "done"
    /\ status = "INFEASIBLE"
    /\ solves = 1
    /\ printed = [found |-> FALSE, status |-> "INFEASIBLE"]
    /\ Len(model.cons) > 0

\* The four terminal outcomes of a solve.
FourOutcomes == {"OPTIMAL", "FEASIBLE", "INFEASIBLE", "MODEL_INVALID"}

\* C18: every solve ends in exactly one of the four outcomes OPTIMAL,
\* FEASIBLE, INFEASIBLE, MODEL_INVALID; main() prints a line that names
\* that outcome; the lines of the four outcomes differ pairwise; and no
\* other outcome is ever printed.
C18_FourOutcomesReported ==
    /\ pc \in {"solved", "done", "failed"} => status \in FourOutcomes
    /\ printed # <<>> =>
           /\ printed.status = status
           /\ printed.status \in FourOutcomes
           /\ printed.found = (status \in {"OPTIMAL", "FEASIBLE"})
    /\ \A a, b \in FourOutcomes : a # b => status_line(a) # status_line(b)

\* Runs have ended with 'No solution found. Status: INFEASIBLE' printed.
C18_Witness ==
    /\ pc \in {"done", "failed"}
    /\ status = "INFEASIBLE"
    /\ printed = status_line("INFEASIBLE")
    /\ printed.status = "INFEASIBLE"

-----------------------------------------------------------------------------
(* The friend part of the objective *)

\* The objective terms that the loop over the choices of the person called
\* name appended, in order.
friend_terms_of(name) ==
    LET E == friend_objective_entries(youth_list, centers)
        at == SelectSeq([n \in DOMAIN E |->
                            IF E[n].youth = name
                            THEN friend_term(youth_list, centers, n) ELSE 0],
                        LAMBDA t : t # 0)
    IN  [k \in DOMAIN at |-> model.obj[at[k]]]

\* a and b have center_assign = 1 at the same center.
share_center(a, b) ==
    \E c \in DOMAIN centers :
        center_assign(a, centers[c].name) = 1 /\ center_assign(b, centers[c].name) = 1

\* Rank weight (3, 2, 1) of the rank-th choice field of youth if it names a
\* person of the roster who shares youth's center, else 0.
choice_reward(youth, rank) ==
    LET friend == <<youth.first_choice, youth.second_choice, youth.third_choice>>[rank]
    IN  IF friend # None /\ friend \in youth_dict(youth_list)
           /\ share_center(youth.name, friend)
        THEN <<3, 2, 1>>[rank] ELSE 0

\* C19: for every regular Youth y and every satisfying assignment, the
\* friend part of the objective contributed by y is friend_weight times the
\* sum, over y's first, second and third choice naming a person of the
\* roster, of the rank weight 3, 2, 1 when y and that friend have
\* center_assign = 1 at the same center and 0 otherwise, whatever the
\* values of the three choice fields.
C19_FriendPartIsRankWeights ==
    Solved =>
        \A i \in DOMAIN youth_list :
            youth_list[i].role = "Youth" =>
                LinSum(friend_terms_of(youth_list[i].name), solution, 1)
                    = cfg.friend_weight * (choice_reward(youth_list[i], 1)
                                           + choice_reward(youth_list[i], 2)
                                           + choice_reward(youth_list[i], 3))

\* C20: in every assignment that satisfies the model, for every regular
\* Youth y, friend f of y in the roster and center c, the auxiliary boolean
\* same_center[y, f, c] is 1 if and only if center_assign[y, c] = 1 and
\* center_assign[f, c] = 1.
C20_SameCenterIsConjunction ==
    Solved =>
        \E E \in {friend_objective_entries(youth_list, centers)} :
        \E base \in {Len(person_center_keys(youth_list, centers))
                     + Len(person_crew_keys(youth_list, centers))} :
            \A n \in DOMAIN E :
                ~E[n].young_adult =>
                    (solution[same_center_at(base, E, n)] = 1
                     <=> /\ center_assign(E[n].youth, E[n].center) = 1
                         /\ center_assign(E[n].friend, E[n].center) = 1)

\* y1 lists y2: an assignment was returned with both in the first center,
\* same_center[y1, y2, c1] = 1 and same_center[y1, y2, c2] = 0.
C20_Witness ==
    /\ Solved
    /\ youth_list[1].first_choice = "y2"
    /\ center_assign("y1", "c1") = 1
    /\ center_assign("y2", "c1") = 1
    /\ LET E == friend_objective_entries(youth_list, centers)
           base == Len(person_center_keys(youth_list, centers))
                   + Len(person_crew_keys(youth_list, centers))
       IN  /\ E[1] = [youth |-> "y1", friend |-> "y2", weight |-> 3, center |-> "c1",
                      young_adult |-> FALSE, is_ya_in_center |-> FALSE]
           /\ solution[same_center_var(base, youth_list, centers, 1)] = 1
           /\ solution[same_center_var(base, youth_list, centers, 2)] = 0

-----------------------------------------------------------------------------
(* The diversity variables *)

\* The number of regular Youths with youth.<field> == value that the solved
\* assignment puts in the crew.
youths_in_crew_with(slot, field, value) ==
    Cardinality({i \in DOMAIN youth_list :
                    /\ youth_list[i].role = "Youth"
                    /\ youth_list[i][field] = value
                    /\ in_crew(youth_list[i].name, slot)})

\* min(a, b)
Min(a, b) == IF a <= b THEN a ELSE b

\* C21: in every satisfying assignment the gender balance variable of a
\* crew lies between 0 and min(female Youths, male Youths) of that crew and
\* the history balance variable between 0 and min(veterans, new); in every
\* optimal solution with gender_weight > 0 (history_weight > 0) it equals
\* that minimum.
C21_BalanceIsMinAtOptimum ==
    Solved =>
        \E n \in {variables_before_gender(youth_list, centers)} :
        \E slots \in {Slots(centers)} :
        \A j \in DOMAIN slots :
            LET gender == solution[gender_balance_at(n, j)]
                history == solution[history_balance_at(n, Len(slots), j)]
                mf == Min(youths_in_crew_with(slots[j], "gender", "F"),
                          youths_in_crew_with(slots[j], "gender", "M"))
                vn == Min(youths_in_crew_with(slots[j], "history", "V"),
                          youths_in_crew_with(slots[j], "history", "N"))
            IN  /\ 0 <= gender /\ gender <= mf
                /\ 0 <= history /\ history <= vn
                /\ status = "OPTIMAL" /\ cfg.gender_weight > 0 => gender = mf
                /\ status = "OPTIMAL" /\ cfg.history_weight > 0 => history = vn

\* An optimal solution puts y1 (F, V) and y2 (M, N) in one crew, whose
\* gender balance and history balance are both 1.
C21_Witness ==
    /\ Solved
    /\ status = "OPTIMAL"
    /\ cfg.gender_weight > 0
    /\ cfg.history_weight > 0
    /\ \E j \in DOMAIN Slots(centers) :
           /\ in_crew("y1", Slots(centers)[j])
           /\ in_crew("y2", Slots(centers)[j])
           /\ solution[gender_balance_var(youth_list, centers, j)] = 1
           /\ solution[history_balance_var(youth_list, centers, j)] = 1

\* A satisfying assignment that is not optimal: y1 and y2 share a crew
\* whose gender balance is 0.
C21_WitnessBelowMin ==
    /\ Solved
    /\ status = "FEASIBLE"
    /\ \E j \in DOMAIN Slots(centers) :
           /\ in_crew("y1", Slots(centers)[j])
           /\ in_crew("y2", Slots(centers)[j])
           /\ solution[gender_balance_var(youth_list, centers, j)] = 0

\* C22: in every assignment that satisfies the model, for every crew and
\* each year of Fr, So, Jr, Sr, has_year is 1 if and only if at least one
\* regular Youth of that year has crew_assign = 1 in that crew, whatever
\* year_weight is.
C22_HasYearIffRepresented ==
    Solved =>
        \E n \in {variables_before_gender(youth_list, centers)} :
        \E slots \in {Slots(centers)} :
        \A j \in DOMAIN slots, y \in DOMAIN years :
            solution[has_year_at(n, Len(slots), j, y)] = 1
            <=> youths_in_crew_with(slots[j], "year", years[y]) >= 1

\* An assignment was returned that is not optimal and has y1 (Fr) and y2
\* (So) in one crew: has_year is 1 there for Fr and So and 0 for Jr.
C22_Witness ==
    /\ Solved
    /\ status = "FEASIBLE"
    /\ \E j \in DOMAIN Slots(centers) :
           /\ in_crew("y1", Slots(centers)[j])
           /\ in_crew("y2", Slots(centers)[j])
           /\ solution[has_year_var(youth_list, centers, j, 1)] = 1
           /\ solution[has_year_var(youth_list, centers, j, 2)] = 1
           /\ solution[has_year_var(youth_list, centers, j, 3)] = 0

-----------------------------------------------------------------------------
(* Several parents *)

\* The constraints enforce_parent_center_constraint adds for the i-th
\* person of the roster.
parent_constraints_of(i) ==
    Range(enforce_parent_center_constraint(person_crew, person_center,
                                           <<youth_list[i]>>, centers))

\* C23: when a child lists several parents, the constraints added for it
\* are center_assign = 1 at the center resolved for the first listed
\* parent, and crew_assign = 0 for exactly the crews of that center whose
\* roster contains any listed parent: nothing is added for crews of other
\* centers, and the build does not raise when the parents are in
\* different centers.
C23_SeveralParentsFirstCenterOnly ==
    pc = "built" =>
        \A i \in DOMAIN youth_list :
            Len(parent_names_list(youth_list[i])) >= 2 =>
                LET child == youth_list[i].name
                    parents == Range(parent_names_list(youth_list[i]))
                    first == centers[SetMax(centers_with(parent_names_list(youth_list[i])[1]))]
                IN  /\ parent_constraints_of(i) \subseteq Range(model.cons)
                    /\ parent_constraints_of(i) =
                           {Con(<< <<1, person_center[<<child, first.name>>]>> >>, "==", 1)}
                           \cup {Con(<< <<1, person_crew[<<child, first.name,
                                                          first.crews[k].name>>]>> >>, "==", 0) :
                                    k \in {k \in DOMAIN first.crews :
                                              Range(first.crews[k].adults) \cap parents # {}}}

\* y1 lists A1 (first center) and then A3 (second center): the model was
\* built, with y1 bound to the first center and kept out of A1's crew, and
\* with no constraint on y1 alone at A3's crew.
C23_Witness ==
    /\ pc = "built"
    /\ parent_names_list(youth_list[1]) = <<"A1", "A3">>
    /\ centers_with("A1") = {1}
    /\ centers_with("A3") = {2}
    /\ Con(<< <<1, person_center[<<"y1", "c1">>]>> >>, "==", 1) \in Range(model.cons)
    /\ Con(<< <<1, person_crew[<<"y1", "c1", "k1">>]>> >>, "==", 0) \in Range(model.cons)
    /\ Con(<< <<1, person_crew[<<"y1", "c2", "k3">>]>> >>, "==", 0) \notin Range(model.cons)

-----------------------------------------------------------------------------
(* The objective builders exclude nothing *)

\* The model of the hard constraints alone: the center_assign and
\* crew_assign variables and the constraints of the nine constraint
\* builders.
hard_model ==
    [vars |-> [v \in 1 .. Len(person_center_keys(youth_list, centers))
                          + Len(person_crew_keys(youth_list, centers)) |-> BoolDomain],
     cons |-> hard_constraints(person_crew, person_center, youth_list, centers, cfg),
     obj |-> <<>>]

\* For each variable the objective builders create, in creation order, the
\* decision variables its value can be read from: same_center is 1 when
\* both of its center variables are, has_year is 1 when any crew variable
\* of a regular Youth of the year is, and a balance variable can be 0.
added_variables(pcenter, pcrew, yl, cs) ==
    [n \in DOMAIN SelectSeq(friend_objective_entries(yl, cs), LAMBDA e : ~e.young_adult) |->
        LET e == SelectSeq(friend_objective_entries(yl, cs), LAMBDA x : ~x.young_adult)[n]
        IN  [both |-> {pcenter[<<e.youth, e.center>>], pcenter[<<e.friend, e.center>>]},
             any |-> {}]]
    \o [j \in DOMAIN Slots(cs) |-> [both |-> {}, any |-> {}]]
    \o Flatten([j \in DOMAIN Slots(cs) |->
            [y \in DOMAIN years |->
                [both |-> {},
                 any |-> {crew_count(pcrew, regular_youth(yl), Slots(cs)[j],
                                     "year", years[y])[t][2] :
                             t \in DOMAIN crew_count(pcrew, regular_youth(yl), Slots(cs)[j],
                                                     "year", years[y])}]]])
    \o [j \in DOMAIN Slots(cs) |-> [both |-> {}, any |-> {}]]

\* The assignment h of center_assign / crew_assign, with those values for
\* the added variables.
completed(h, added) ==
    [v \in 1 .. (Len(h) + Len(added)) |->
        IF v <= Len(h) THEN h[v]
        ELSE IF \/ (added[v - Len(h)].both # {}
                     /\ \A x \in added[v - Len(h)].both : h[x] = 1)
                \/ \E x \in added[v - Len(h)].any : h[x] = 1
             THEN 1 ELSE 0]

\* C24: the variables and constraints added by the four objective builders
\* exclude no assignment: the model's constraints begin with the hard
\* constraints, so an assignment satisfying the full model satisfies them,
\* and every assignment of center_assign / crew_assign that satisfies the
\* hard constraints alone has values of the added variables with which it
\* satisfies the full model, whatever the weights.
C24_ObjectivesExcludeNothing ==
    pc = "built" =>
        \E hard \in {hard_model} :
        \E added \in {added_variables(person_center, person_crew, youth_list, centers)} :
            /\ SubSeq(model.cons, 1, Len(hard.cons)) = hard.cons
            /\ Len(model.vars) = Len(hard.vars) + Len(added)
            /\ \A h \in Solutions(hard) :
                   \E full \in {completed(h, added)} :
                       /\ Satisfies(model, full)
                       /\ \A v \in DOMAIN model.vars :
                              model.vars[v].lo <= full[v] /\ full[v] <= model.vars[v].hi

\* A model was built, with same_center, balance and has_year variables
\* and their constraints, whose hard constraints have a satisfying
\* assignment.
C24_Witness ==
    /\ pc = "built"
    /\ youth_list[1].first_choice = "y2"
    /\ Len(model.vars) > Len(hard_model.vars) + 5 * Len(Slots(centers))
    /\ Len(model.cons) > Len(hard_model.cons)
    /\ Solutions(hard_model) # {}

-----------------------------------------------------------------------------
(* Friends and a center of one crew *)

\* The centers that have exactly one crew.
one_crew_centers(cs) == {c \in DOMAIN cs : Len(cs[c].crews) = 1}

\* The roster with first_choice of its i-th person set to friend.
with_first_choice(yl, i, friend) == [yl EXCEPT ![i].first_choice = friend]

\* C25: in every assignment that satisfies the model, no person with at
\* least one friend choice found in the roster has center_assign = 1 at a
\* center that has exactly one crew; and when every satisfying assignment
\* of a model puts a person without friend choices at a center of one
\* crew, the model built from the same input with a friend choice of the
\* roster given to that person has no satisfying assignment.
C25_NoFriendChooserAtOneCrewCenter ==
    /\ Solved =>
           \A i \in DOMAIN youth_list, c \in one_crew_centers(centers) :
               valid_choices(youth_list[i], youth_list) # <<>> =>
                   center_assign(youth_list[i].name, centers[c].name) = 0
    /\ (pc = "built" /\ one_crew_centers(centers) # {}) =>
           \E sols \in {Solutions(model)} :
               \A i \in DOMAIN youth_list :
                   ( /\ choices(youth_list[i]) = <<>>
                     /\ sols # {}
                     /\ \A s \in sols : \E c \in one_crew_centers(centers) :
                            s[person_center[<<youth_list[i].name, centers[c].name>>]] = 1 )
                   => \A friend \in youth_dict(youth_list) :
                          Solutions(create_crew_assignment_model(
                              cfg, with_first_choice(youth_list, i, friend),
                              centers).model) = {}

\* The second center has the one crew k3 and y1 chose y2: an assignment
\* was returned, with y1 at the first center.
C25_Witness ==
    /\ Solved
    /\ one_crew_centers(centers) = {2}
    /\ valid_choices(youth_list[1], youth_list) = <<"y2">>
    /\ center_assign("y1", "c1") = 1

\* The second center has the one crew k3, whose roster lists the Young
\* Adult y3, who made no friend choice: the model has satisfying
\* assignments, all with y3 at the second center.
C25_WitnessConfined ==
    /\ pc = "built"
    /\ one_crew_centers(centers) = {2}
    /\ youth_list[3].role = "Young Adult"
    /\ "y3" \in Range(centers[2].crews[1].adults)
    /\ choices(youth_list[3]) = <<>>
    /\ Solutions(model) # {}
    /\ \A s \in Solutions(model) : s[person_center[<<"y3", "c2">>]] = 1

-----------------------------------------------------------------------------
(* A friend choice that names the chooser *)

\* The regular Youths of the roster with a friend choice naming themselves.
self_choosers(yl) ==
    {i \in DOMAIN yl : yl[i].role = "Youth" /\ yl[i].name \in Range(choices(yl[i]))}

\* The assignment with every variable at 0.
nowhere == [w \in DOMAIN model.vars |-> 0]

\* The assignment with variable v at 1 and every other variable at 0.
only(v) == [w \in DOMAIN model.vars |-> IF w = v THEN 1 ELSE 0]

\* C26: when a Youth's friend choice names the Youth themself, the build
\* raises no error for it (a raise is for a parent not found), the built
\* model has for every crew a friend-separation constraint that no
\* assignment with that Youth's crew_assign at 1 satisfies, and the built
\* model has no satisfying assignment: the solver reports INFEASIBLE.
C26_SelfChoiceInfeasible ==
    self_choosers(youth_list) # {} =>
        /\ pc = "raised" => parent_not_found(youth_list, centers)
        /\ pc = "built" =>
               /\ \A i \in self_choosers(youth_list) :
                      /\ Range(separate_in_every_crew(person_crew, youth_list[i].name,
                                                      youth_list[i].name, centers))
                             \subseteq Range(model.cons)
                      /\ \A j \in DOMAIN Slots(centers) :
                             \E v \in {person_crew[<<youth_list[i].name, Slots(centers)[j].center,
                                                     Slots(centers)[j].crew>>]} :
                                 /\ ~Holds(separate_in_every_crew(person_crew, youth_list[i].name,
                                               youth_list[i].name, centers)[j], only(v))
                                 /\ Holds(separate_in_every_crew(person_crew, youth_list[i].name,
                                              youth_list[i].name, centers)[j], nowhere)
               /\ Solutions(model) = {}
        /\ pc = "solved" => status = "INFEASIBLE"

\* y1's only choice is y1: the model was built, and the model built from
\* the same input without that choice has a satisfying assignment.
C26_Witness ==
    /\ pc = "built"
    /\ self_choosers(youth_list) = {1}
    /\ choices(youth_list[1]) = <<"y1">>
    /\ Solutions(create_crew_assignment_model(
           cfg, without_choices(youth_list, 1), centers).model) # {}

-----------------------------------------------------------------------------
(* The friends of a pinned Young Adult *)

\* The crews whose roster lists the person: where add_one_crew_per_youth
\* pins a Young Adult.
crews_listing(name, cs) ==
    {j \in DOMAIN Slots(cs) : name \in Range(Slots(cs)[j].adults)}

\* C27: in every assignment that satisfies the model, a Young Adult that
\* is listed in a crew and has at least one friend choice found in the
\* roster is in that crew, at least one of those friends has
\* center_assign = 1 at the Young Adult's center, and none of them is in
\* the Young Adult's crew.
C27_PinnedYoungAdultFriends ==
    Solved =>
        \A i \in DOMAIN youth_list :
            ( /\ youth_list[i].role = "Young Adult"
              /\ valid_choices(youth_list[i], youth_list) # <<>> ) =>
                \A j \in crews_listing(youth_list[i].name, centers) :
                    /\ in_crew(youth_list[i].name, Slots(centers)[j])
                    /\ \E friend \in Range(valid_choices(youth_list[i], youth_list)) :
                           center_assign(friend, Slots(centers)[j].center) = 1
                    /\ \A friend \in Range(valid_choices(youth_list[i], youth_list)) :
                           ~in_crew(friend, Slots(centers)[j])

\* The Young Adult y3, listed in k2 of the first center, chose y1: an
\* assignment was returned, with y3 in k2 and y1 in k1.
C27_Witness ==
    /\ Solved
    /\ youth_list[3].role = "Young Adult"
    /\ crews_listing("y3", centers) # {}
    /\ valid_choices(youth_list[3], youth_list) = <<"y1">>
    /\ crew_assign("y3", "c1", "k2") = 1
    /\ crew_assign("y1", "c1", "k1") = 1

-----------------------------------------------------------------------------
(* Siblings listed in one direction or in both *)

\* The roster with name added to the siblings of its i-th person.
listing_sibling(yl, i, name) == [yl EXCEPT ![i].siblings = Append(@, name)]

\* The roster with name removed from the siblings of its i-th person.
not_listing_sibling(yl, i, name) ==
    [yl EXCEPT ![i].siblings = SelectSeq(@, LAMBDA x : x # name)]

\* The model, whose satisfying assignments are sols, has the satisfying
\* assignments of the model built from the roster yl, and as many sibling
\* crew-separation constraints.
same_as_built_from(sols, yl) ==
    /\ sols = Solutions(create_crew_assignment_model(cfg, yl, centers).model)
    /\ Len(enforce_sibling_crew_separation_constraint(person_crew, youth_list, centers))
           = Len(enforce_sibling_crew_separation_constraint(person_crew, yl, centers))

\* The (a, b) of the roster with a listing b as a sibling.
listed_siblings(yl) ==
    {e \in (DOMAIN yl) \X (DOMAIN yl) : yl[e[2]].name \in Range(siblings_list(yl[e[1]]))}

\* C28: when a lists b as a sibling and b is in the roster, then in every
\* assignment that satisfies the model a and b have the same center_assign
\* at every center and are together in no crew, whether or not b lists a;
\* and the model built with the relation listed in both directions has the
\* same satisfying assignments and the same number of sibling
\* crew-separation constraints as the model built with it listed once, in
\* either direction.
C28_SiblingsOneDirectionOrBoth ==
    (pc = "built" /\ listed_siblings(youth_list) # {}) =>
        \E sols \in {Solutions(model)} :
        \A e \in listed_siblings(youth_list) :
            \E a \in {youth_list[e[1]].name}, b \in {youth_list[e[2]].name} :
                /\ \A s \in sols :
                       /\ \A c \in DOMAIN centers :
                              s[person_center[<<a, centers[c].name>>]]
                                  = s[person_center[<<b, centers[c].name>>]]
                       /\ \A j \in DOMAIN Slots(centers) :
                              s[person_crew[<<a, Slots(centers)[j].center,
                                              Slots(centers)[j].crew>>]]
                              + s[person_crew[<<b, Slots(centers)[j].center,
                                                Slots(centers)[j].crew>>]] <= 1
                /\ IF <<e[2], e[1]>> \in listed_siblings(youth_list)
                   THEN same_as_built_from(sols, not_listing_sibling(youth_list, e[2], a))
                   ELSE same_as_built_from(sols, listing_sibling(youth_list, e[2], a))

\* y2 lists y1 and y1 lists nobody: the model was built, with one
\* crew-separation constraint per crew for the pair, and has a satisfying
\* assignment.
C28_Witness ==
    /\ pc = "built"
    /\ siblings_list(youth_list[1]) = <<>>
    /\ siblings_list(youth_list[2]) = <<"y1">>
    /\ Len(enforce_sibling_crew_separation_constraint(person_crew, youth_list, centers))
           = Len(Slots(centers))
    /\ Solutions(model) # {}

\* y1 and y2 list each other: the model was built, with one
\* crew-separation constraint per crew for the pair, and has a satisfying
\* assignment.
C28_WitnessBoth ==
    /\ pc = "built"
    /\ siblings_list(youth_list[1]) = <<"y2">>
    /\ siblings_list(youth_list[2]) = <<"y1">>
    /\ Len(enforce_sibling_crew_separation_constraint(person_crew, youth_list, centers))
           = Len(Slots(centers))
    /\ Solutions(model) # {}

=============================================================================
